---- MODULE Spec2Model ----
(***************************************************************************)
(* Model of the solar potential analysis engine of irxsnguyen/hacktx25:    *)
(* SolarPotentialAnalyzer.analyzeSolarPotential (utils/solarCalculations), *)
(* BiasCorrectionEngine (lib/analysisEngine), LandPriceEstimator and       *)
(* ExclusionMask (lib/landPriceEstimator) and MapView.handleAnalyze.       *)
(*                                                                         *)
(* Numbers are fixed point.  A point is a pair of cell indices on a grid   *)
(* of 250 m steps (444 cells are a degree, 111 km); `e` is the part of the *)
(* coordinate below the 4th decimal, which the cache keys drop.  Prices    *)
(* are in cents, ratios and scores carry a factor 1000.  The irradiance    *)
(* integral of calculateRawPOA and the noon clear-sky irradiance are       *)
(* trigonometric functions of the coordinates: here they are tables over   *)
(* location classes (poaTable, csTable), chosen when the system starts     *)
(* and never changed.                                                      *)
(***************************************************************************)
EXTENDS Integers, Sequences, FiniteSets, TLC

VARIABLES
    poaTable,        \* location class -> daily irradiance sum (calculateRawPOA)
    csTable,         \* location class -> noon clear-sky POA (calculateClearSkyPOA)
    today,           \* day of year of the wall clock (new Date())
    pc,              \* position of the running analysis
    caller,          \* "mapview" (handleAnalyze) | "direct" (a direct call) | "none"
    req,             \* the request of the running analysis
    idx,             \* loop index of the exclusion and irradiance loops (1-based)
    gridPoints,      \* gridPoints
    filteredPoints,  \* filteredPoints of the exclusion loop
    candidates,      \* candidates: <<[location, rawPOA]>>
    biasResults,     \* biasResults
    landPriceResults,\* landPriceResults
    results,         \* finalResults, as returned
    events,          \* the progress events of the running analysis, in order
    lpCache,         \* LandPriceEstimator.cache: key -> LandPriceResult
    exCache,         \* ExclusionMask.cache: key -> polygons
    lastCheck,       \* outcome of the last isPointExcluded call
    ui,              \* UI store + MapView state
    analyses,        \* useAnalysisStore.analyses
    cancelSignalled, \* a cancellation was signalled during the running analysis
    firstResponse,   \* the first response returned, with its request
    runs,            \* number of analyses started
    lastLookup,      \* the last direct call of getLandPrice and its result
    clock,           \* hours passed on the wall clock (Date.now())
    storedAt,        \* key -> hour at which the cache entry of the key was set
    lastBatch,       \* the last direct call of getLandPrices and its result
    pipCall,         \* the last direct call of pointInPolygon and its result
    topK,            \* a MinHeap or MaxHeap, with the scores pushed so far
    rankCall,        \* the last direct call of rankTopLocations and its result
    biasCall,        \* the last direct call of the bias corrector and its results
    sampleCall,      \* the last direct call of the sampler and what it produced
    irrCall,         \* two direct calls of calculateIrradiance for one sun
    maskCall,        \* the last direct call of isPointExcluded, and for which
                     \* options each cached polygon set was requested
    selCall          \* a list of scored candidates and what is returned for it

vars == <<poaTable, csTable, today, pc, caller, req, idx, gridPoints,
          filteredPoints, candidates, biasResults, landPriceResults, results,
          events, lpCache, exCache, lastCheck, ui, analyses, cancelSignalled,
          firstResponse, runs, lastLookup, clock, storedAt, lastBatch,
          pipCall, topK, rankCall, biasCall, sampleCall, irrCall, maskCall,
          selCall>>

\* the state of the analysis, its callers and the caches
analysisVars == <<poaTable, csTable, today, pc, caller, req, idx, gridPoints,
                  filteredPoints, candidates, biasResults, landPriceResults,
                  results, events, lpCache, exCache, lastCheck, ui, analyses,
                  cancelSignalled, firstResponse, runs, lastLookup>>

\* the state of direct calls of pure library functions
libVars == <<pipCall, topK, rankCall, biasCall, sampleCall, irrCall,
            maskCall, selCall>>

\* the state of direct calls of the library, which an analysis leaves alone
callVars == <<clock, storedAt, lastBatch, libVars>>

----------------------------------------------------------------------------
(* Bounds of the model *)

\* analyses started in one behaviour
MaxRuns == 2
\* location classes of the irradiance tables
NumZones == 2
\* the sampler's lower and upper point counts (200 and 2000 in the code)
MinPoints == 2
MaxPoints == 7
\* reference points of the bias fit (12 in the code)
RefSamples == 2

----------------------------------------------------------------------------
(* Arithmetic helpers *)

Min(a, b) == IF a < b THEN a ELSE b
Max(a, b) == IF a > b THEN a ELSE b
Abs(a) == IF a < 0 THEN -a ELSE a

\* a / b rounded toward zero, as the fixed-point image of a float division
Div(a, b) == IF a >= 0 THEN a \div b ELSE -((-a) \div b)

\* Math.round(a / b) for b > 0: halves round up
RoundDiv(a, b) == (2 * a + b) \div (2 * b)

RECURSIVE SqrtIter(_, _)
SqrtIter(n, r) ==
    LET next == (r + n \div r) \div 2
    IN  IF next >= r THEN r ELSE SqrtIter(n, next)
\* floor of Math.sqrt(n), by Newton's iteration from above
Sqrt(n) == IF n <= 0 THEN 0 ELSE SqrtIter(n, n)

Range(s) == {s[i] : i \in 1..Len(s)}

----------------------------------------------------------------------------
(* Requests *)

\* A request: center in whole degrees, radius in hectometres (0.1 km), the
\* flags, and the exclusion configuration
ExclusionOff == [enabled |-> FALSE, includeWater |-> FALSE, includeSensitive |-> FALSE]
ExclusionOn == [enabled |-> TRUE, includeWater |-> FALSE, includeSensitive |-> FALSE]

MkReq(c, r, up, lp, rc, ex) ==
    [center |-> c, radiusHm |-> r, urbanPenalty |-> up,
     includeLandPrices |-> lp, rankByCost |-> rc, exclusion |-> ex]

\* two centers; the latitude of the second is out of range
Austin == [lat |-> 30, lng |-> -97]
BadLat == [lat |-> 91, lng |-> 0]

\* What the user submits in the map view: center, radius, urban penalty, and
\* the exclusion configuration the store holds at that moment.  Radius 0 and latitude 91
\* are outside the accepted ranges.
MapInputs ==
    { [center |-> Austin, radiusHm |-> 3, urbanPenalty |-> FALSE,
       exclusionConfig |-> ExclusionOff],
      [center |-> Austin, radiusHm |-> 3, urbanPenalty |-> FALSE,
       exclusionConfig |-> ExclusionOn],
      [center |-> Austin, radiusHm |-> 0, urbanPenalty |-> FALSE,
       exclusionConfig |-> ExclusionOff],
      [center |-> BadLat, radiusHm |-> 3, urbanPenalty |-> FALSE,
       exclusionConfig |-> ExclusionOff] }

\* Direct calls of analyzeSolarPotential.  Radius 1010 (101 km) is outside
\* (0, 100] km.
DirectRequests ==
    { MkReq(Austin, 10, TRUE, FALSE, FALSE, ExclusionOff),
      MkReq(Austin, 25, FALSE, FALSE, TRUE, ExclusionOff),
      MkReq(Austin, 3, FALSE, TRUE, FALSE, ExclusionOff),
      MkReq(Austin, 3, FALSE, FALSE, FALSE, ExclusionOn),
      MkReq(Austin, 1010, FALSE, FALSE, FALSE, ExclusionOff) }

NoReq == MkReq(Austin, -1, FALSE, FALSE, FALSE, ExclusionOff)

\* useUIStore.validateCoordinate
validateCoordinate(value, type) ==
    IF type = "latitude" THEN ~(value < -90 \/ value > 90)
    ELSE ~(value < -180 \/ value > 180)

\* useUIStore.validateRadius, the radius in hectometres
validateRadius(valueHm) == ~(valueHm <= 0 \/ valueHm > 1000)

ValidRequest(r) ==
    /\ validateCoordinate(r.center.lat, "latitude")
    /\ validateCoordinate(r.center.lng, "longitude")
    /\ validateRadius(r.radiusHm)

----------------------------------------------------------------------------
(* SeededRng and CandidateSampler *)

\* The generator keeps the low bits of the 32-bit state (the low bits of a
\* power-of-two congruential generator do not depend on the high ones).
RngModulus == 256
LcgMultiplier == 1664525
LcgIncrement == 1013904223

\* simpleHash: ((hash << 5) - hash + x) & mask, twice, then Math.abs
simpleHash(lat, lng, radiusHm) ==
    LET h1 == (31 * lat + lng) % RngModulus
        h2 == (31 * h1 + radiusHm) % RngModulus
    IN  Abs(h2)

\* one step of the generator returned by createSeededRNG
LcgNext(state) == (state * LcgMultiplier + LcgIncrement) % RngModulus

\* cos and sin of the angle 2*pi*k/8, times 1000
Cos8 == <<1000, 707, 0, -707, -1000, -707, 0, 707>>
Sin8 == <<0, 707, 1000, 707, 0, -707, -1000, -707>>

\* generateRandomPointInCircle with the two draws s1, s2 (rng() = s / RngModulus)
generateRandomPointInCircle(center, radiusHm, s1, s2) ==
    LET randomRadiusM == (radiusHm * 100 * Sqrt(s1 * RngModulus)) \div RngModulus
        k == ((s2 * 8) \div RngModulus) + 1
        x == Div(randomRadiusM * Cos8[k], 1000)
        y == Div(randomRadiusM * Sin8[k], 1000)
    IN  [lat |-> center.lat * 444 + Div(2 * y + 250 * (IF y >= 0 THEN 1 ELSE -1), 2 * 250),
         lng |-> center.lng * 444 + Div(2 * x + 250 * (IF x >= 0 THEN 1 ELSE -1), 2 * 250),
         e   |-> (s1 \div 2) % 2]

\* targetPointCount of generateRandomSampling
TargetPointCount(radiusHm) ==
    Min(MaxPoints, Max(MinPoints, RoundDiv(radiusHm * radiusHm * 30, 100)))

RECURSIVE SamplePoints(_, _, _, _)
SamplePoints(center, radiusHm, state, n) ==
    IF n = 0 THEN <<>>
    ELSE LET s1 == LcgNext(state)
             s2 == LcgNext(s1)
         IN  <<generateRandomPointInCircle(center, radiusHm, s1, s2)>>
             \o SamplePoints(center, radiusHm, s2, n - 1)

\* generateRandomSampling (generateGridPoints)
generateGridPoints(center, radiusHm) ==
    SamplePoints(center, radiusHm,
                 simpleHash(center.lat, center.lng, radiusHm),
                 TargetPointCount(radiusHm))

\* The same conversion at the resolution of a millimetre.  rng() returns
\* u / DrawSteps for the radius and (k - 1) / 8 for the angle.
DrawSteps == 1024

\* latKm of generateRandomPointInCircle, and R of calculateDistance
latKm == 111
EarthRadiusKm == 6371

\* x and y of generateRandomPointInCircle in millimetres, the radius in metres:
\* randomRadius = radiusKm * Math.sqrt(rng()), then the angle
randomOffset(radiusM, u, k) ==
    LET randomRadius == (radiusM * Sqrt(u * 1000000)) \div Sqrt(DrawSteps)
    IN  [x |-> Div(randomRadius * Cos8[k], 1000),
         y |-> Div(randomRadius * Sin8[k], 1000)]

\* The length of a degree of latitude on the sphere of calculateDistance is
\* R * pi / 180 = 111.1949 km, that of generateRandomPointInCircle is latKm:
\* what a great-circle distance exceeds the projected one by, in 1/100000
\* (rounded down)
greatCircleExcess == (EarthRadiusKm * 314159) \div (180 * latKm) - 100000

\* calculateDistance(center, point) in millimetres for the point that
\* generateRandomPointInCircle places at the offset (x, y): the point lies
\* y / latKm degrees north and x / lngKm degrees east of the center, and over
\* these distances the great circle is the straight line of the plane
distanceFromCenter(offset) ==
    LET unit == (Max(Abs(offset.x), Abs(offset.y)) \div 30000) + 1
        x == Div(offset.x, unit)
        y == Div(offset.y, unit)
        projected == Sqrt(x * x + y * y) * unit
    IN  projected + ((projected \div 1000) * greatCircleExcess) \div 100

----------------------------------------------------------------------------
(* Irradiance tables and the wall clock *)

\* values of the irradiance sum and of the noon clear-sky POA, in one unit;
\* the clear-sky index they give lies below and above its cap of 2
PoaValues == {60, 150}
CsValues == {40, 100}

\* days of the year the wall clock can show (20 March, 21 June)
Days == <<80, 172>>

\* values Math.random() can return, times 1000
RandMilli == {0, 999}

\* the location class of a point
Zone(p) == (p.lat + (p.lng \div 2)) % NumZones

\* calculateUrbanFactor / calculateSkyViewFactor, times 1000; lat in degrees
calculateUrbanFactor(latDeg) == Max(700, 1000 - (Abs(latDeg) * 300) \div 90)
calculateSkyViewFactor(latDeg) == Max(800, 1000 - (Abs(latDeg) * 200) \div 90)

LatDeg(p) == Div(p.lat, 444)
LngDeg(p) == Div(p.lng, 444)

\* calculateRawPOA: the day's sum from the table, then the two factors
calculateRawPOA(poa, p, urbanPenalty) ==
    LET totalPOA == poa[Zone(p)]
        afterUrban == IF urbanPenalty
                      THEN Div(totalPOA * calculateUrbanFactor(LatDeg(p)), 1000)
                      ELSE totalPOA
    IN  Max(0, Div(afterUrban * calculateSkyViewFactor(LatDeg(p)), 1000))

----------------------------------------------------------------------------
(* IrradianceCalculator *)

\* Angles are whole degrees and multiples of 30; sines and cosines carry a
\* factor 1000.  The elevation of the sun, which the code keeps in radians,
\* is named by its degrees.
CosDeg(d) ==
    <<1000, 866, 500, 0, -500, -866, -1000, -866, -500, 0, 500, 866>>[
        ((d % 360) \div 30) + 1]
SinDeg(d) == CosDeg(d - 90)

SOLAR_CONSTANT == 1367
CLEAR_SKY_ATTENUATION == 750
DIFFUSE_FRACTION == 150

\* calculateIncidenceAngle; the angle is kept as its cosine, from which
\* Math.acos makes it and to which Math.cos turns it back
calculateIncidenceAngle(solarPos, tilt, azimuth) ==
    LET cosIncidence ==
            Div(SinDeg(solarPos.elevation) * CosDeg(tilt), 1000)
            + Div(Div(CosDeg(solarPos.elevation) * SinDeg(tilt), 1000)
                  * CosDeg(solarPos.azimuth - azimuth), 1000)
    IN  Max(0, cosIncidence)

\* Math.pow(0.7, Math.pow(1 / Math.sin(elevation), 0.678)), times 1000
atmosphericTransmittance(elevation) ==
    CASE elevation = 30 -> 565
      [] elevation = 60 -> 675
      [] elevation = 90 -> 700

\* calculateDNI, in W/m2
calculateDNI(elevation, incidenceAngle) ==
    IF elevation <= 0 THEN 0
    ELSE Div(Div(Div(SOLAR_CONSTANT * Max(0, incidenceAngle), 1000)
                 * atmosphericTransmittance(elevation), 1000)
             * CLEAR_SKY_ATTENUATION, 1000)

\* calculateDHI
calculateDHI(dni, elevation) ==
    IF elevation <= 0 THEN 0
    ELSE Div(Div(dni * SinDeg(elevation), 1000) * DIFFUSE_FRACTION, 1000)

\* calculateIrradiance
calculateIrradiance(solarPos, params) ==
    LET incidenceAngle ==
            calculateIncidenceAngle(solarPos, params.tilt, params.azimuth)
        dni == calculateDNI(solarPos.elevation, incidenceAngle)
        dhi == calculateDHI(dni, solarPos.elevation)
        ghi == Div(dni * SinDeg(solarPos.elevation), 1000) + dhi
    IN  [dni |-> dni, dhi |-> dhi, ghi |-> ghi]

----------------------------------------------------------------------------
(* BiasCorrectionEngine *)

monthlyAttenuation == <<550, 580, 620, 650, 680, 700, 720, 700, 680, 650, 600, 570>>
monthlyTemperature == <<5, 8, 12, 16, 20, 24, 26, 25, 22, 17, 12, 7>>
temperatureCoeffMilli == 4
referenceRadiusM == 2000
csiWeight == 600
percentileWeight == 400

\* calculateClearSkyPOA and calculateModelPOA are the same computation
calculateClearSkyPOA(cs, p) == cs[Zone(p)]
calculateModelPOA(cs, p) == cs[Zone(p)]

\* calculateBaselinePOA
calculateBaselinePOA(cs, p, dayOfYear) ==
    LET month == (dayOfYear * 100) \div 3044
        monthIndex == Max(0, Min(11, month)) + 1
        attenuation == monthlyAttenuation[monthIndex]
        ambientTemp == monthlyTemperature[monthIndex]
        climatologyPOA == Div(calculateClearSkyPOA(cs, p) * attenuation, 1000)
        temperatureDerate == 1000 - temperatureCoeffMilli * (ambientTemp - 25)
        baselinePOA == Div(climatologyPOA * Max(500, temperatureDerate), 1000)
    IN  Max(0, baselinePOA)

\* sampleReferencePoints: point i (0-based) of sampleSize, with its random draw
ReferencePoint(center, i, sampleSize, rand) ==
    LET k == ((8 * i) \div sampleSize) + 1
        distanceM == Div(referenceRadiusM * (300 + Div(700 * rand, 1000)), 1000)
    IN  [lat |-> center.lat + Div(Div(distanceM * Cos8[k], 1000), 250),
         lng |-> center.lng + Div(Div(distanceM * Sin8[k], 1000), 250),
         e   |-> 0]

sampleReferencePoints(center, sampleSize, rands) ==
    [i \in 1..sampleSize |-> ReferencePoint(center, i - 1, sampleSize, rands[i])]

RECURSIVE SumSeq(_)
SumSeq(s) == IF s = <<>> THEN 0 ELSE Head(s) + SumSeq(Tail(s))

\* fitAffineTransformation; deviations are taken from n times the values so
\* that the means stay integral, and scaled back by n*n
fitAffineTransformation(modelValues, baselineValues) ==
    LET n == Len(modelValues)
        dm == [i \in 1..n |-> n * modelValues[i] - SumSeq(modelValues)]
        db == [i \in 1..n |-> n * baselineValues[i] - SumSeq(baselineValues)]
        numerator == Div(SumSeq([i \in 1..n |-> dm[i] * db[i]]), n * n)
        denominator == Div(SumSeq([i \in 1..n |-> dm[i] * dm[i]]), n * n)
        baselineVariance == Div(SumSeq([i \in 1..n |-> db[i] * db[i]]), n * n)
        slope == IF denominator > 0 THEN Div(numerator * 1000, denominator) ELSE 1000
        intercept == Div(SumSeq(baselineValues) * 1000 - slope * SumSeq(modelValues),
                         n * 1000)
        correlation == IF denominator > 0 /\ baselineVariance > 0
                       THEN Div(numerator * 1000, Sqrt(denominator * baselineVariance))
                       ELSE 0
    IN  IF n < 2 THEN [slope |-> 1000, intercept |-> 0, correlation |-> 0]
        ELSE [slope |-> slope, intercept |-> intercept, correlation |-> correlation]

\* calculateBiasFactors
calculateBiasFactors(cs, referencePoints, dayOfYear) ==
    fitAffineTransformation(
        [i \in 1..Len(referencePoints) |-> calculateModelPOA(cs, referencePoints[i])],
        [i \in 1..Len(referencePoints) |->
            calculateBaselinePOA(cs, referencePoints[i], dayOfYear)])

\* applyBiasCorrection
applyBiasCorrection(rawPOA, biasFactors) ==
    IF Abs(biasFactors.correlation) < 300 THEN rawPOA
    ELSE Max(0, Div(biasFactors.slope * rawPOA, 1000) + biasFactors.intercept)

\* Array.prototype.sort(compare) with Before(a, b) standing for
\* compare(a, b) < 0; the sort is stable: equal elements keep their order
SortBy(s, Before(_, _)) ==
    LET n == Len(s)
        pos(i) == 1 + Cardinality({j \in 1..n :
                        \/ Before(s[j], s[i])
                        \/ (~Before(s[i], s[j]) /\ j < i)})
    IN  [k \in 1..n |-> s[CHOOSE i \in 1..n : pos(i) = k]]

\* findIndex: the first index (1-based) whose element satisfies P, 0 if none
FindIndex(s, P(_)) ==
    IF \E i \in 1..Len(s) : P(s[i])
    THEN CHOOSE i \in 1..Len(s) : P(s[i]) /\ \A j \in 1..(i - 1) : ~P(s[j])
    ELSE 0

\* calculateLocalPercentile, in thousandths of a percent
calculateLocalPercentile(candidatePOA, allCandidates) ==
    LET sortedCandidates == SortBy(allCandidates, LAMBDA a, b : a < b)
        found == FindIndex(sortedCandidates, LAMBDA poa : poa >= candidatePOA)
        rank == found - 1
        percentile == Div(rank * 100 * 1000, Len(sortedCandidates) - 1)
    IN  IF Len(allCandidates) <= 1 THEN 50 * 1000
        ELSE IF rank = -1 THEN 100 * 1000
        ELSE IF rank = 0 THEN 0
        ELSE Max(0, Min(100 * 1000, percentile))

\* the clear-sky index of processCandidate and calculateRPS, times 1000
ClearSkyIndex(baselinePOA, correctedPOA) ==
    IF baselinePOA > 0
    THEN Max(0, Min(2 * 1000, Div(correctedPOA * 1000, baselinePOA)))
    ELSE 0

\* calculateRPS, times 1000
calculateRPS(baselinePOA, correctedPOA, localPercentile) ==
    LET csi == ClearSkyIndex(baselinePOA, correctedPOA)
        normalizedPercentile == Div(localPercentile, 100)
        rps == Div(csiWeight * csi + percentileWeight * normalizedPercentile, 1000)
    IN  Max(0, rps)

\* processCandidate
processCandidate(cs, location, rawPOA, dayOfYear, allCandidates, biasFactors) ==
    LET baselinePOA == calculateBaselinePOA(cs, location, dayOfYear)
        correctedPOA == applyBiasCorrection(rawPOA, biasFactors)
        localPercentile == calculateLocalPercentile(correctedPOA, allCandidates)
    IN  [location |-> location,
         rawPOA |-> rawPOA,
         baselinePOA |-> baselinePOA,
         correctedPOA |-> correctedPOA,
         clearSkyIndex |-> ClearSkyIndex(baselinePOA, correctedPOA),
         localPercentile |-> localPercentile,
         relativePotentialScore |->
             calculateRPS(baselinePOA, correctedPOA, localPercentile),
         biasFactors |-> biasFactors]

\* processAllCandidates; rands are the draws of sampleReferencePoints
processAllCandidates(cs, cands, dayOfYear, rands) ==
    LET center == IF Len(cands) > 0 THEN cands[1].location
                  ELSE [lat |-> 0, lng |-> 0, e |-> 0]
        referencePoints == sampleReferencePoints(center, RefSamples, rands)
        biasFactors == calculateBiasFactors(cs, referencePoints, dayOfYear)
        allPOAs == [i \in 1..Len(cands) |-> cands[i].rawPOA]
    IN  [i \in 1..Len(cands) |->
            processCandidate(cs, cands[i].location, cands[i].rawPOA, dayOfYear,
                             allPOAs, biasFactors)]

----------------------------------------------------------------------------
(* LandPriceEstimator *)

\* DEFAULT_CONFIG; prices in cents, ratios times 1000, cacheExpiry in hours
basePrice == 20000
urbanGradient == 20
latitudeAdjustment == 10
longitudeAdjustment == 5
minPrice == 5000
syntheticConfidence == 300
apiConfidence == 800
cacheExpiry == 24

\* apiTimeout and the duration of the simulated external call, in ms
apiTimeout == 5000
ApiLatencyMs == 100

DefaultLandPriceConfig ==
    [apiEnabled |-> FALSE, apiTimeout |-> apiTimeout, cacheEnabled |-> TRUE,
     cacheExpiry |-> cacheExpiry]

\* urbanCenters, in whole degrees
urbanCenters ==
    << [lat |-> 41, lng |-> -74], [lat |-> 34, lng |-> -118],
       [lat |-> 42, lng |-> -88], [lat |-> 30, lng |-> -95],
       [lat |-> 33, lng |-> -112], [lat |-> 40, lng |-> -105],
       [lat |-> 48, lng |-> -122], [lat |-> 26, lng |-> -80],
       [lat |-> 34, lng |-> -84], [lat |-> 40, lng |-> -80] >>

\* getDistanceToNearestUrban, in km, at the resolution of a degree
getDistanceToNearestUrban(location) ==
    LET d(u) == 111 * Sqrt((LatDeg(location) - u.lat) * (LatDeg(location) - u.lat)
                         + (LngDeg(location) - u.lng) * (LngDeg(location) - u.lng))
        all == {d(urbanCenters[i]) : i \in 1..Len(urbanCenters)}
    IN  CHOOSE m \in all : \A o \in all : m <= o

\* generateSyntheticPrice; rand is the value drawn from Math.random()
generateSyntheticPrice(location, rand) ==
    LET distanceToUrban == getDistanceToNearestUrban(location)
        urbanDecay == Min(800, distanceToUrban * urbanGradient)
        p1 == Div(basePrice * (1000 - urbanDecay), 1000)
        p2 == Div(p1 * (1000 + Abs(LatDeg(location) - 40) * latitudeAdjustment), 1000)
        p3 == Div(p2 * (1000 + Abs(LngDeg(location)) * longitudeAdjustment), 1000)
        price == Div(p3 * (800 + Div(rand * 400, 1000)), 1000)
    IN  [location |-> location,
         pricePerSquareMeter |-> Max(minPrice, price),
         dataSource |-> "synthetic",
         confidence |-> syntheticConfidence]

\* fetchFromAPI, when the simulated call answers
fetchFromAPI(location, rand) ==
    LET apiBase == 30000 + Div(rand * 70000, 1000)
        distanceToUrban == getDistanceToNearestUrban(location)
        priceAdjustment == Max(300, 1000 - distanceToUrban * 10)
    IN  [location |-> location,
         pricePerSquareMeter |-> Div(apiBase * priceAdjustment, 1000),
         dataSource |-> "api",
         confidence |-> apiConfidence]

\* calculatePowerPerCost; kWh/day times 1000, price in cents, epsilon 1.0 USD
calculatePowerPerCost(kwhPerDay, landPrice) ==
    LET adjustedPrice == Max(landPrice, 100)
    IN  Div(kwhPerDay * 1000, adjustedPrice)

\* getCacheKey: toFixed(4) keeps the cell and drops what lies below it
getCacheKey(location) == [lat |-> location.lat, lng |-> location.lng]

\* LandPriceEstimator.isCacheValid: expiry is computed from the current time
lpIsCacheValid(data, expiryHours, nowHours) ==
    LET expiry == nowHours + expiryHours
    IN  nowHours < expiry

CachePut(cache, key, value) ==
    [k \in DOMAIN cache \cup {key} |-> IF k = key THEN value ELSE cache[k]]

\* getLandPrice; rand is the random draw of the lookup.  The external call
\* is awaited to its end (config.apiTimeout is never read) and the simulated
\* call does not throw, so the catch branch is not taken.
\* Gives the result and the cache afterwards.
getLandPrice(location, config, cache, nowHours, rand) ==
    LET cacheKey == getCacheKey(location)
        fresh == IF config.apiEnabled
                 THEN fetchFromAPI(location, rand)
                 ELSE generateSyntheticPrice(location, rand)
    IN  IF /\ config.cacheEnabled
           /\ cacheKey \in DOMAIN cache
           /\ lpIsCacheValid(cache[cacheKey], config.cacheExpiry, nowHours)
        THEN [result |-> cache[cacheKey], cache |-> cache]
        ELSE [result |-> fresh,
              cache |-> IF config.cacheEnabled
                        THEN CachePut(cache, cacheKey, fresh) ELSE cache]

\* the lookups of a batch while the external source is disabled: each runs to
\* its end before the next begins; draws[i] is the random draw of lookup i
RECURSIVE LookupsInTurn(_, _, _, _, _)
LookupsInTurn(locations, config, cache, nowHours, draws) ==
    IF locations = <<>> THEN [results |-> <<>>, cache |-> cache]
    ELSE LET one == getLandPrice(Head(locations), config, cache, nowHours,
                                 Head(draws))
             rest == LookupsInTurn(Tail(locations), config, one.cache, nowHours,
                                   Tail(draws))
         IN  [results |-> <<one.result>> \o rest.results, cache |-> rest.cache]

\* the lookups of a batch while the external source is enabled: every lookup
\* reads the cache before any of them has waited for its answer and set it
LookupsAtOnce(locations, config, cache, nowHours, draws) ==
    LET n == Len(locations)
        one(i) == getLandPrice(locations[i], config, cache, nowHours, draws[i])
        setBy(k) == {i \in 1..n : /\ getCacheKey(locations[i]) = k
                                  /\ one(i).cache # cache}
        last(k) == CHOOSE i \in setBy(k) : \A j \in setBy(k) : j <= i
        keys == {k \in {getCacheKey(locations[i]) : i \in 1..n} : setBy(k) # {}}
    IN  [results |-> [i \in 1..n |-> one(i).result],
         cache |-> [k \in DOMAIN cache \cup keys |->
                       IF k \in keys THEN one(last(k)).result ELSE cache[k]]]

\* getLandPrices for at most batchSize locations (one batch)
batchSize == 10
getLandPrices(locations, config, cache, nowHours, draws) ==
    IF config.apiEnabled
    THEN LookupsAtOnce(locations, config, cache, nowHours, draws)
    ELSE LookupsInTurn(locations, config, cache, nowHours, draws)

\* the hour at which each entry of the cache was set; the code keeps none
Stamp(stored, before, after, nowHours) ==
    [k \in DOMAIN after |->
        IF k \in DOMAIN stored /\ k \in DOMAIN before /\ after[k] = before[k]
        THEN stored[k] ELSE nowHours]

----------------------------------------------------------------------------
(* ExclusionMask *)

\* Ring vertices are <<lng, lat>> in half cells, so that no sampled point
\* lies on an edge; a point is tested at twice its cell indices.

\* pointInRing: ray casting; edge (i, j) with j the vertex before i
pointInRing(lat, lng, ring) ==
    LET n == Len(ring)
        prev(i) == IF i = 1 THEN n ELSE i - 1
        crosses(i) ==
            LET xi == ring[i][1]
                yi == ring[i][2]
                xj == ring[prev(i)][1]
                yj == ring[prev(i)][2]
            IN  /\ (yi > lat) # (yj > lat)
                \* lng < (xj - xi) * (lat - yi) / (yj - yi) + xi
                /\ IF yj - yi > 0
                   THEN (lng - xi) * (yj - yi) < (xj - xi) * (lat - yi)
                   ELSE (lng - xi) * (yj - yi) > (xj - xi) * (lat - yi)
    IN  Cardinality({i \in 1..n : crosses(i)}) % 2 = 1

\* a pointInSinglePolygon that looks at the exterior ring only
pointInSinglePolygonNoHoles(lat, lng, coordinates) ==
    pointInRing(lat, lng, coordinates[1])

\* pointInSinglePolygon: coordinates = <<exterior ring, holes...>>
pointInSinglePolygon(lat, lng, coordinates) ==
    /\ pointInRing(lat, lng, coordinates[1])
    /\ \A h \in 2..Len(coordinates) : ~pointInRing(lat, lng, coordinates[h])

\* pointInPolygon
pointInPolygon(lat, lng, geometry) ==
    IF geometry.type = "Polygon"
    THEN pointInSinglePolygon(lat, lng, geometry.coordinates)
    ELSE IF geometry.type = "MultiPolygon"
    THEN \E k \in 1..Len(geometry.coordinates) :
             pointInSinglePolygon(lat, lng, geometry.coordinates[k])
    ELSE FALSE

\* generateCacheKey: center to 4 decimals, radius, tagSetVersion
generateCacheKey(center, radiusHm, config) ==
    [lat |-> center.lat, lng |-> center.lng, radiusHm |-> radiusHm,
     tagSetVersion |-> config.tagSetVersion]

\* ExclusionMask.isCacheValid
exIsCacheValid(polygons) == Len(polygons) > 0

\* The exclusion configuration analyzeSolarPotential passes on
ExclusionConfigOf(exclusionConfig) ==
    [enabled |-> TRUE, tagSetVersion |-> "1.0",
     includeWater |-> exclusionConfig.includeWater,
     includeSensitive |-> exclusionConfig.includeSensitive]

\* A rectangle <<lng, lat>> ring around the cells [x1..x2] x [y1..y2]
RectRing(x1, x2, y1, y2) ==
    << <<2 * x1 - 1, 2 * y1 - 1>>, <<2 * x2 + 1, 2 * y1 - 1>>,
       <<2 * x2 + 1, 2 * y2 + 1>>, <<2 * x1 - 1, 2 * y2 + 1>>,
       <<2 * x1 - 1, 2 * y1 - 1>> >>

\* What the polygon provider can answer for an area: nothing, one
\* residential block north-west of the center, or an industrial estate of two
\* parts that between them cover the whole area
ProviderAnswers(center) ==
    LET cx == center.lng * 444
        cy == center.lat * 444
    IN  { <<>>,
          << [id |-> "way_1", type |-> "residential",
              geometry |-> [type |-> "Polygon",
                            coordinates |-> <<RectRing(cx - 1, cx, cy + 1, cy + 1)>>]] >>,
          << [id |-> "relation_2", type |-> "industrial",
              geometry |-> [type |-> "MultiPolygon",
                            coordinates |->
                                << <<RectRing(cx - 4, cx + 4, cy + 1, cy + 4)>>,
                                   <<RectRing(cx - 4, cx + 4, cy - 4, cy)>> >>]] >> }

\* getPolygonsForArea; outcome is "reject" (fetch rejects), "http_error"
\* (response.ok is false) or "ok" with the provider's answer
getPolygonsForArea(center, radiusHm, config, cache, outcome, answer) ==
    LET cacheKey == generateCacheKey(center, radiusHm, config)
    IN  IF cacheKey \in DOMAIN cache /\ exIsCacheValid(cache[cacheKey])
        THEN [threw |-> FALSE, polygons |-> cache[cacheKey], cache |-> cache,
              fetched |-> FALSE]
        ELSE IF outcome # "ok"
        THEN [threw |-> TRUE, polygons |-> <<>>, cache |-> cache, fetched |-> TRUE]
        ELSE [threw |-> FALSE, polygons |-> answer,
              cache |-> CachePut(cache, cacheKey, answer), fetched |-> TRUE]

\* a filter that excludes the point when the lookup failed
ExclusionOnFailureClosed == TRUE

\* what isPointExcluded returns when the lookup of the polygons threw
ExclusionOnFailure == FALSE

\* isPointExcluded, with the cache afterwards
isPointExcluded(point, center, radiusHm, config, cache, outcome, answer) ==
    LET got == getPolygonsForArea(center, radiusHm, config, cache, outcome, answer)
        hit == \E k \in 1..Len(got.polygons) :
                   pointInPolygon(2 * point.lat, 2 * point.lng, got.polygons[k].geometry)
    IN  [isExcluded |-> IF ~config.enabled THEN FALSE
                        ELSE IF got.threw THEN ExclusionOnFailure
                        ELSE hit,
         threw |-> FALSE,
         fetch |-> IF ~config.enabled \/ ~got.fetched THEN "none" ELSE outcome,
         cache |-> IF config.enabled THEN got.cache ELSE cache]

----------------------------------------------------------------------------
(* Ranking and spacing of analyzeSolarPotential *)

TopCandidates == 20
MaxResults == 5
minSpacingM == 500

\* calculateDistance in metres.  Points lie on a grid of 250 m steps in the
\* tangent plane at the center, where the great-circle distance is the plane
\* distance; two points of one cell are less than 250 m apart.
calculateDistance(point1, point2) ==
    LET dLat == point2.lat - point1.lat
        dLng == point2.lng - point1.lng
    IN  10 * Sqrt(625 * (dLat * dLat + dLng * dLng))

\* the first land price result at exactly the location, or none
FindLandPrice(landPrices, location) ==
    FindIndex(landPrices, LAMBDA lp : lp.location = location)

\* candidatesWithCosts; kwhPerDay in Wh per day, landPrice in cents
CandidateWithCost(result, landPrices) ==
    LET k == FindLandPrice(landPrices, result.location)
        kwhPerDay == result.correctedPOA * 100
        landPrice == IF k = 0 \/ landPrices[k].pricePerSquareMeter = 0
                     THEN 100 ELSE landPrices[k].pricePerSquareMeter
    IN  [location |-> result.location,
         relativePotentialScore |-> result.relativePotentialScore,
         correctedPOA |-> result.correctedPOA,
         kwhPerDay |-> kwhPerDay,
         landPrice |-> landPrice,
         powerPerCost |-> calculatePowerPerCost(kwhPerDay, landPrice)]

candidatesWithCosts(bias, landPrices) ==
    [i \in 1..Len(bias) |-> CandidateWithCost(bias[i], landPrices)]

\* the order taken from the cost flag alone
RankByCostFlagOnly(rankByCostEfficiency, includeLandPrices) ==
    rankByCostEfficiency

\* whether the candidates are ordered by power per cost
RankByPowerPerCost(rankByCostEfficiency, includeLandPrices) ==
    rankByCostEfficiency /\ includeLandPrices

\* the candidates in descending order of the metric, all of them kept
sortedResultsUncut(withCosts, rankByCostEfficiency, includeLandPrices) ==
    IF RankByPowerPerCost(rankByCostEfficiency, includeLandPrices)
    THEN SortBy(withCosts, LAMBDA a, b : a.powerPerCost > b.powerPerCost)
    ELSE SortBy(withCosts, LAMBDA a, b :
                    a.relativePotentialScore > b.relativePotentialScore)

\* sortedResults: descending by the metric, the first 20
sortedResults(withCosts, rankByCostEfficiency, includeLandPrices) ==
    LET sorted ==
            IF RankByPowerPerCost(rankByCostEfficiency, includeLandPrices)
            THEN SortBy(withCosts, LAMBDA a, b : a.powerPerCost > b.powerPerCost)
            ELSE SortBy(withCosts, LAMBDA a, b :
                            a.relativePotentialScore > b.relativePotentialScore)
    IN  SubSeq(sorted, 1, Min(Len(sorted), TopCandidates))

\* tooClose looking at the location selected last only
tooCloseToLast(candidate, selected) ==
    /\ Len(selected) > 0
    /\ calculateDistance(candidate.location, selected[Len(selected)].location)
           < minSpacingM

\* tooClose of applySpacingToBiasResults
tooClose(candidate, selected) ==
    \E k \in 1..Len(selected) :
        calculateDistance(candidate.location, selected[k].location) < minSpacingM

\* the loop without the break at five results
RECURSIVE SpacingLoopNoBreak(_, _, _)
SpacingLoopNoBreak(sorted, i, selected) ==
    IF i > Len(sorted) THEN selected
    ELSE IF tooClose(sorted[i], selected)
    THEN SpacingLoopNoBreak(sorted, i + 1, selected)
    ELSE SpacingLoopNoBreak(sorted, i + 1, Append(selected, sorted[i]))

\* the loop of applySpacingToBiasResults from candidate i on
RECURSIVE SpacingLoop(_, _, _)
SpacingLoop(sorted, i, finalResults) ==
    IF i > Len(sorted) THEN finalResults
    ELSE IF tooClose(sorted[i], finalResults)
    THEN SpacingLoop(sorted, i + 1, finalResults)
    ELSE IF Len(finalResults) + 1 >= MaxResults
    THEN Append(finalResults, sorted[i])
    ELSE SpacingLoop(sorted, i + 1, Append(finalResults, sorted[i]))

applySpacingToBiasResults(sorted) ==
    IF Len(sorted) <= 1 THEN sorted ELSE SpacingLoop(sorted, 1, <<>>)

\* finalResults of analyzeSolarPotential
finalResults(topResults) ==
    [i \in 1..Len(topResults) |->
        [coordinates |-> topResults[i].location,
         score |-> topResults[i].relativePotentialScore,
         kwhPerDay |-> topResults[i].kwhPerDay,
         landPrice |-> topResults[i].landPrice,
         powerPerCost |-> topResults[i].powerPerCost]]

----------------------------------------------------------------------------
(* MinHeap and MaxHeap (lib/minHeap.ts) *)

\* the array this.heap is a sequence; index is counted from 0 as in the code

swap(heap, i, j) ==
    [heap EXCEPT ![i + 1] = heap[j + 1], ![j + 1] = heap[i + 1]]

RECURSIVE heapifyUp(_, _)
heapifyUp(heap, index) ==
    IF index = 0 THEN heap
    ELSE LET parentIndex == (index - 1) \div 2
         IN  IF heap[index + 1].score < heap[parentIndex + 1].score
             THEN heapifyUp(swap(heap, index, parentIndex), parentIndex)
             ELSE heap

RECURSIVE heapifyDown(_, _)
heapifyDown(heap, index) ==
    LET leftChild == 2 * index + 1
        rightChild == 2 * index + 2
        afterLeft == IF /\ leftChild < Len(heap)
                        /\ heap[leftChild + 1].score < heap[index + 1].score
                     THEN leftChild ELSE index
        smallest == IF /\ rightChild < Len(heap)
                       /\ heap[rightChild + 1].score < heap[afterLeft + 1].score
                    THEN rightChild ELSE afterLeft
    IN  IF smallest # index
        THEN heapifyDown(swap(heap, index, smallest), smallest)
        ELSE heap

\* -Infinity, below every score
NegInfinity == -1

\* MinHeap.getMinScore and MaxHeap.getWorstScore
getMinScore(heap) == IF Len(heap) > 0 THEN heap[1].score ELSE NegInfinity
getWorstScore(heap) == IF Len(heap) > 0 THEN heap[1].score ELSE NegInfinity

\* a push that takes no item once the heap is full
pushWhileRoom(kind, heap, maxSize, item) ==
    IF Len(heap) < maxSize
    THEN heapifyUp(Append(heap, item), Len(heap))
    ELSE heap

\* push of MinHeap and of MaxHeap: the array afterwards
push(kind, heap, maxSize, item) ==
    IF Len(heap) < maxSize
    THEN heapifyUp(Append(heap, item), Len(heap))
    ELSE IF item.score > (IF kind = "MaxHeap" THEN getWorstScore(heap)
                          ELSE heap[1].score)
    THEN heapifyDown([heap EXCEPT ![1] = item], 0)
    ELSE heap

NoHeap == [kind |-> "none", maxSize |-> 0, heap |-> <<>>, before |-> <<>>,
           pushed |-> <<>>]

----------------------------------------------------------------------------
(* AnalysisEngine.rankTopLocations (lib/analysisEngine.ts) *)

\* kWh/day and score are counted in halves of the comparator's tolerance
\* (0.5e-12), coordinates in cells of 250 m.  Two coordinates of the grid that
\* differ do so by far more than the tolerance, and so do two distances.

\* NaN and Infinity as values of a score or of kWh/day
NotANumber == 999998
PosInfinity == 999999

\* the tolerance 1e-12 of the comparator
epsilon == 2

DEFAULT_CONFIG ==
    [maxResults |-> 5, minSpacingMeters |-> 100, minScore |-> 0,
     minKwhPerDay |-> 0]

\* { ...DEFAULT_CONFIG, ...config }
finalConfig(config) ==
    [k \in DOMAIN DEFAULT_CONFIG |->
        IF k \in DOMAIN config THEN config[k] ELSE DEFAULT_CONFIG[k]]

isValidNumber(value) ==
    value \notin {NotANumber, PosInfinity, NegInfinity}

\* the predicate of filterValidCandidates without the test of the numbers
passesThresholds(candidate, config) ==
    /\ ~(candidate.score < config.minScore \/ candidate.kwhPerDay < config.minKwhPerDay)
    /\ ~(candidate.score < 0 \/ candidate.kwhPerDay < 0)

\* the predicate of filterValidCandidates
isValidCandidate(candidate, config) ==
    /\ isValidNumber(candidate.score) /\ isValidNumber(candidate.kwhPerDay)
    /\ ~(candidate.score < config.minScore \/ candidate.kwhPerDay < config.minKwhPerDay)
    /\ ~(candidate.score < 0 \/ candidate.kwhPerDay < 0)

filterValidCandidates(cands, config) ==
    SelectSeq(cands, LAMBDA c : isValidCandidate(c, config))

\* AnalysisEngine.calculateDistance, in metres
engineDistance(point1, point2) == calculateDistance(point1, point2)

\* the comparator of sortByMerit: negative when a goes before b
compareMerit(a, b, center) ==
    LET kwhDiff == b.kwhPerDay - a.kwhPerDay
        scoreDiff == b.score - a.score
        distDiff == engineDistance(center.at, a.coordinates)
                    - engineDistance(center.at, b.coordinates)
        latDiff == a.coordinates.lat - b.coordinates.lat
    IN  IF Abs(kwhDiff) > epsilon THEN kwhDiff
        ELSE IF Abs(scoreDiff) > epsilon THEN scoreDiff
        ELSE IF center.given /\ Abs(distDiff) > 0 THEN distDiff
        ELSE IF Abs(latDiff) > 0 THEN latDiff
        ELSE a.coordinates.lng - b.coordinates.lng

\* Array.prototype.sort is stable: x goes behind the last one not after it
RECURSIVE InsertByMerit(_, _, _)
InsertByMerit(sorted, x, center) ==
    IF sorted = <<>> THEN <<x>>
    ELSE LET last == sorted[Len(sorted)]
         IN  IF compareMerit(last, x, center) <= 0 THEN Append(sorted, x)
             ELSE Append(InsertByMerit(SubSeq(sorted, 1, Len(sorted) - 1), x, center),
                         last)

RECURSIVE sortByMerit(_, _)
sortByMerit(cands, center) ==
    IF cands = <<>> THEN <<>>
    ELSE InsertByMerit(sortByMerit(SubSeq(cands, 1, Len(cands) - 1), center),
                       cands[Len(cands)], center)

\* the loop of applySpacingConstraint from candidate i on
RECURSIVE SpacingPass(_, _, _, _)
SpacingPass(sorted, i, selected, config) ==
    IF i > Len(sorted) \/ Len(selected) >= config.maxResults THEN selected
    ELSE LET candidate == sorted[i]
             close == \E k \in 1..Len(selected) :
                          engineDistance(candidate.coordinates,
                                         selected[k].coordinates)
                              < config.minSpacingMeters
         IN  SpacingPass(sorted, i + 1,
                         IF close THEN selected ELSE Append(selected, candidate),
                         config)

applySpacingConstraint(sortedCandidates, config) ==
    SpacingPass(sortedCandidates, 1, <<>>, config)

rankTopLocations(cands, config, center) ==
    LET validCandidates == filterValidCandidates(cands, finalConfig(config))
    IN  IF Len(validCandidates) = 0 THEN <<>>
        ELSE applySpacingConstraint(sortByMerit(validCandidates, center),
                                    finalConfig(config))

NoCenter == [given |-> FALSE, at |-> [lat |-> 0, lng |-> 0]]
NoRank == [candidates |-> <<>>, config |-> <<>>, center |-> NoCenter,
           result |-> <<>>, called |-> FALSE]

----------------------------------------------------------------------------
(* State of the UI store and of the map view *)

NoAnalysis == [center |-> Austin, radiusHm |-> -1, results |-> <<>>]
NoCheck == [point |-> [lat |-> 0, lng |-> 0, e |-> 0], fetch |-> "none",
            isExcluded |-> FALSE, threw |-> FALSE]
NoResponse == [req |-> NoReq, results |-> <<>>]
NoLookup == [config |-> DefaultLandPriceConfig, cached |-> FALSE,
             result |-> [location |-> [lat |-> 0, lng |-> 0, e |-> 0],
                         pricePerSquareMeter |-> 0, dataSource |-> "none",
                         confidence |-> 0],
             at |-> 0, storedAt |-> 0]
NoPip == [lat |-> 0, lng |-> 0, geometry |-> [type |-> "none", coordinates |-> <<>>],
          inside |-> FALSE,
          moved |-> [type |-> "none", coordinates |-> <<>>],
          insideMoved |-> FALSE]
NoSelection == [called |-> FALSE]
NoMask == [called |-> FALSE, fetchedFor |-> <<>>]
NoIrradiance == [called |-> FALSE]
NoSample == [center |-> Austin, radiusHm |-> -1, points |-> <<>>,
             draw |-> [u |-> 0, k |-> 1], offset |-> [x |-> 0, y |-> 0],
             distance |-> 0]
NoBias == [kind |-> "none", candidates |-> <<>>, allCandidates |-> <<>>,
           results |-> <<>>]
NoBatch == [locations |-> <<>>, config |-> DefaultLandPriceConfig,
            results |-> <<[location |-> [lat |-> 0, lng |-> 0, e |-> 0],
                           pricePerSquareMeter |-> 0, dataSource |-> "none",
                           confidence |-> 0]>>]

\* setAnalysisStatus(status, message, percentage) of the UI store
setAnalysisStatus(u, status, message, percentage) ==
    [u EXCEPT !.status = status, !.message = message, !.percentage = percentage]

\* resetAnalysisProgress of the UI store
resetAnalysisProgress(u) == setAnalysisStatus(u, "idle", "", 0)

\* a store that keeps the latest analysis only
addAnalysisOverwrite(list, analysis) == <<analysis>>

\* useAnalysisStore.addAnalysis
addAnalysis(list, analysis) == Append(list, analysis)

\* rankedResults of handleAnalyze
rankedResults(res) ==
    [i \in 1..Len(res) |->
        [rank |-> i,
         coordinates |-> res[i].coordinates,
         score |-> res[i].score,
         kwhPerDay |-> res[i].kwhPerDay,
         landPrice |-> res[i].landPrice,
         powerPerCost |-> res[i].powerPerCost]]

\* a progress event
Ev(percentage, stage) == [pct |-> percentage, stage |-> stage]

\* the onProgress callback of handleAnalyze, applied to the events evs
Notify(u, who, evs) ==
    IF who = "mapview" /\ evs # <<>>
    THEN setAnalysisStatus(u, evs[Len(evs)].stage, "progress", evs[Len(evs)].pct)
    ELSE u

----------------------------------------------------------------------------
(* Initial states *)

InitEngine ==
    /\ pc = "idle"
    /\ caller = "none"
    /\ req = NoReq
    /\ idx = 0
    /\ gridPoints = <<>>
    /\ filteredPoints = <<>>
    /\ candidates = <<>>
    /\ biasResults = <<>>
    /\ landPriceResults = <<>>
    /\ results = <<>>
    /\ events = <<>>
    /\ lpCache = <<>>
    /\ exCache = <<>>
    /\ lastCheck = NoCheck
    /\ ui = [isAnalyzing |-> FALSE, status |-> "idle", message |-> "",
             percentage |-> 0, currentResults |-> <<>>,
             currentAnalysis |-> NoAnalysis]
    /\ analyses = <<>>
    /\ cancelSignalled = FALSE
    /\ firstResponse = NoResponse
    /\ runs = 0
    /\ lastLookup = NoLookup
    /\ clock = 0
    /\ storedAt = <<>>
    /\ lastBatch = NoBatch
    /\ pipCall = NoPip
    /\ topK = NoHeap
    /\ rankCall = NoRank
    /\ biasCall = NoBias
    /\ sampleCall = NoSample
    /\ irrCall = NoIrradiance
    /\ maskCall = NoMask
    /\ selCall = NoSelection

Init ==
    /\ poaTable \in [0..(NumZones - 1) -> PoaValues]
    /\ csTable \in [0..(NumZones - 1) -> CsValues]
    /\ today \in 1..Len(Days)
    /\ InitEngine

----------------------------------------------------------------------------
(* analyzeSolarPotential: one action per stretch between two awaits *)

\* outcomes of the request to the polygon provider
FetchOutcomes == {"reject", "http_error", "ok"}

\* an analysis that stops with an error when no point is left
AfterGridFailsOnEmpty(points) == IF Len(points) = 0 THEN "failed" ELSE "irradiance"

\* where the run continues once gridPoints is final
AfterGrid(points) == IF Len(points) = 0 THEN "bias" ELSE "irradiance"

\* The call of analyzeSolarPotential up to its first await: stage 1 and the
\* first event of what follows.  The request is not examined.
StartAnalysis(r, who, u) ==
    LET points == generateGridPoints(r.center, r.radiusHm)
        evs == IF r.exclusion.enabled
               THEN <<Ev(10, "grid-generation"), Ev(15, "grid-generation")>>
               ELSE <<Ev(10, "grid-generation"), Ev(20, "irradiance-computation")>>
    IN  /\ req' = r
        /\ caller' = who
        /\ gridPoints' = points
        /\ filteredPoints' = <<>>
        /\ candidates' = <<>>
        /\ biasResults' = <<>>
        /\ landPriceResults' = <<>>
        /\ results' = <<>>
        /\ events' = evs
        /\ idx' = 1
        /\ pc' = IF r.exclusion.enabled THEN "exclusion" ELSE AfterGrid(points)
        /\ ui' = Notify(u, who, evs)
        /\ lastCheck' = NoCheck
        /\ cancelSignalled' = FALSE
        /\ runs' = runs + 1
        /\ UNCHANGED <<poaTable, csTable, today, lpCache, exCache, analyses,
                       firstResponse,
                   lastLookup, callVars>>

\* MapView.handleAnalyze up to the first await of the analysis
handleAnalyze(inputs) ==
    /\ pc = "idle"
    /\ StartAnalysis(MkReq(inputs.center, inputs.radiusHm, inputs.urbanPenalty,
                           TRUE, TRUE, inputs.exclusionConfig),
                     "mapview",
                     resetAnalysisProgress([ui EXCEPT !.isAnalyzing = TRUE,
                                                      !.currentResults = <<>>]))

\* a caller other than the map view
AnalyzeDirect(r) ==
    /\ pc = "idle"
    /\ StartAnalysis(r, "direct", ui)

\* one iteration of the exclusion loop; after the last one stage 2 begins
ExcludePoint ==
    /\ pc = "exclusion"
    /\ LET point == gridPoints[idx]
           config == ExclusionConfigOf(req.exclusion)
           key == generateCacheKey(req.center, req.radiusHm, config)
           cached == key \in DOMAIN exCache /\ exIsCacheValid(exCache[key])
       IN  \E outcome \in FetchOutcomes, answer \in ProviderAnswers(req.center) :
             /\ outcome # "ok" \/ cached => answer = <<>>
             /\ cached => outcome = "ok"
             /\ LET r == isPointExcluded(point, req.center, req.radiusHm, config,
                                         exCache, outcome, answer)
                    kept == IF r.isExcluded THEN filteredPoints
                            ELSE Append(filteredPoints, point)
                    evs == <<Ev(20, "irradiance-computation")>>
                IN  /\ exCache' = r.cache
                    /\ lastCheck' = [point |-> point, fetch |-> r.fetch,
                                     isExcluded |-> r.isExcluded,
                                     threw |-> r.threw]
                    /\ filteredPoints' = kept
                    /\ IF idx < Len(gridPoints)
                       THEN /\ idx' = idx + 1
                            /\ UNCHANGED <<gridPoints, events, ui, pc>>
                       ELSE /\ idx' = 1
                            /\ gridPoints' = kept
                            /\ events' = events \o evs
                            /\ ui' = Notify(ui, caller, evs)
                            /\ pc' = AfterGrid(kept)
    /\ UNCHANGED <<poaTable, csTable, today, caller, req, candidates, biasResults,
                   landPriceResults, results, lpCache, analyses, cancelSignalled,
                   firstResponse, runs,
                   lastLookup, callVars>>

\* the progress taken from i + 1 over a span of 40
PointProgressOvershoot(i, totalPoints) ==
    RoundDiv(20 * totalPoints + 40 * (i + 1), totalPoints)

\* Math.round(20 + (i / totalPoints) * 30), the progress after point i (from 0)
PointProgress(i, totalPoints) == RoundDiv(20 * totalPoints + 30 * i, totalPoints)

\* one iteration of the irradiance loop (i = idx - 1 in the source)
ComputePoint ==
    /\ pc = "irradiance"
    /\ LET point == gridPoints[idx]
           totalPoints == Len(gridPoints)
           rawPOA == calculateRawPOA(poaTable, point, req.urbanPenalty)
           evs == <<Ev(PointProgress(idx - 1, totalPoints),
                       "irradiance-computation")>>
       IN  /\ candidates' = Append(candidates, [location |-> point, rawPOA |-> rawPOA])
           /\ events' = events \o evs
           /\ ui' = Notify(ui, caller, evs)
           /\ IF idx < totalPoints
              THEN idx' = idx + 1 /\ pc' = pc
              ELSE idx' = 1 /\ pc' = "bias"
    /\ UNCHANGED <<poaTable, csTable, today, caller, req, gridPoints, filteredPoints,
                   biasResults, landPriceResults, results, lpCache, exCache,
                   lastCheck, analyses, cancelSignalled, firstResponse, runs,
                   lastLookup, callVars>>

\* stage 3; the day of the year is read from the wall clock, the reference
\* points are drawn from Math.random()
BiasCorrection ==
    /\ pc = "bias"
    /\ \E rands \in [1..RefSamples -> RandMilli] :
         LET dayOfYear == Days[today]
             bias == processAllCandidates(csTable, candidates, dayOfYear, rands)
             evs == <<Ev(50, "bias-correction"), Ev(80, "bias-correction")>>
                    \o (IF req.includeLandPrices THEN <<Ev(80, "land-prices")>>
                        ELSE <<>>)
         IN  /\ biasResults' = bias
             /\ events' = events \o evs
             /\ ui' = Notify(ui, caller, evs)
             /\ pc' = IF req.includeLandPrices THEN "landprices" ELSE "ranking"
    /\ UNCHANGED <<poaTable, csTable, today, caller, req, idx, gridPoints,
                   filteredPoints, candidates, landPriceResults, results, lpCache,
                   exCache, lastCheck, analyses, cancelSignalled, firstResponse, runs,
                   lastLookup, callVars>>

\* stage 4: getLandPrices with the default configuration; it does not reject
LandPrices ==
    /\ pc = "landprices"
    /\ LET locations == [i \in 1..Len(biasResults) |-> biasResults[i].location]
       IN  \E draws \in [1..Len(locations) -> RandMilli] :
             LET got == getLandPrices(locations, DefaultLandPriceConfig, lpCache,
                                      clock, draws)
                 evs == <<Ev(90, "land-prices")>>
             IN  /\ landPriceResults' = got.results
                 /\ lpCache' = got.cache
                 /\ storedAt' = Stamp(storedAt, lpCache, got.cache, clock)
                 /\ events' = events \o evs
                 /\ ui' = Notify(ui, caller, evs)
    /\ pc' = "ranking"
    /\ UNCHANGED <<poaTable, csTable, today, caller, req, idx, gridPoints,
                   filteredPoints, candidates, biasResults, results, exCache,
                   lastCheck, analyses, cancelSignalled, firstResponse, runs,
                   lastLookup, clock, lastBatch, libVars>>

\* stage 5 and 6: scores, order, spacing, the result list, 'complete'
Ranking ==
    /\ pc = "ranking"
    /\ LET withCosts == candidatesWithCosts(biasResults, landPriceResults)
           sorted == sortedResults(withCosts, req.rankByCost, req.includeLandPrices)
           topResults == applySpacingToBiasResults(sorted)
           evs == <<Ev(90, "ranking"), Ev(100, "complete")>>
       IN  /\ results' = finalResults(topResults)
           /\ events' = events \o evs
           /\ ui' = Notify(ui, caller, evs)
    /\ pc' = "returned"
    /\ UNCHANGED <<poaTable, csTable, today, caller, req, idx, gridPoints,
                   filteredPoints, candidates, biasResults, landPriceResults,
                   lpCache, exCache, lastCheck, analyses, cancelSignalled,
                   firstResponse, runs,
                   lastLookup, callVars>>

\* the response is remembered the first time one is returned
Remember(first, r, res) ==
    IF first = NoResponse THEN [req |-> r, results |-> res] ELSE first

\* handleAnalyze after the analysis resolved: ranks, current analysis, store
handleAnalyzeResolved ==
    /\ pc = "returned"
    /\ caller = "mapview"
    /\ LET ranked == rankedResults(results)
           analysis == [center |-> req.center, radiusHm |-> req.radiusHm,
                        results |-> ranked]
       IN  /\ ui' = [ui EXCEPT !.currentResults = ranked,
                               !.currentAnalysis = analysis,
                               !.isAnalyzing = FALSE]
           /\ analyses' = addAnalysis(analyses, analysis)
    /\ firstResponse' = Remember(firstResponse, req, results)
    /\ pc' = "done"
    /\ UNCHANGED <<poaTable, csTable, today, caller, req, idx, gridPoints,
                   filteredPoints, candidates, biasResults, landPriceResults,
                   results, events, lpCache, exCache, lastCheck, cancelSignalled,
                   runs,
                   lastLookup, callVars>>

\* a direct caller receives the result list
DirectResolved ==
    /\ pc = "returned"
    /\ caller = "direct"
    /\ firstResponse' = Remember(firstResponse, req, results)
    /\ pc' = "done"
    /\ UNCHANGED <<poaTable, csTable, today, caller, req, idx, gridPoints,
                   filteredPoints, candidates, biasResults, landPriceResults,
                   results, events, lpCache, exCache, lastCheck, ui, analyses,
                   cancelSignalled, runs,
                   lastLookup, callVars>>

\* The caller signals cancellation while the run is past stage 1.  No
\* parameter or field of the analysis takes the signal.
SignalCancel ==
    /\ pc \in {"irradiance", "bias", "landprices"}
    /\ ~cancelSignalled
    /\ cancelSignalled' = TRUE
    /\ UNCHANGED <<poaTable, csTable, today, pc, caller, req, idx, gridPoints,
                   filteredPoints, candidates, biasResults, landPriceResults,
                   results, events, lpCache, exCache, lastCheck, ui, analyses,
                   firstResponse, runs,
                   lastLookup, callVars>>

\* handleAnalyze once more with the inputs of the analysis before
AnalyzeAgain ==
    /\ pc = "done"
    /\ caller = "mapview"
    /\ ~req.exclusion.enabled
    /\ runs < MaxRuns
    /\ StartAnalysis(req, "mapview",
                     resetAnalysisProgress([ui EXCEPT !.isAnalyzing = TRUE,
                                                      !.currentResults = <<>>]))

\* the wall clock reaches a later day while no analysis runs
Tick ==
    /\ pc = "done"
    /\ today < Len(Days)
    /\ today' = today + 1
    /\ UNCHANGED <<poaTable, csTable, pc, caller, req, idx, gridPoints,
                   filteredPoints, candidates, biasResults, landPriceResults,
                   results, events, lpCache, exCache, lastCheck, ui, analyses,
                   cancelSignalled, firstResponse, runs, lastLookup, callVars>>

\* LandPriceEstimator.clearCache (and a reload of the page)
ClearCache ==
    /\ pc \in {"idle", "done"}
    /\ lpCache # <<>>
    /\ lpCache' = <<>>
    /\ storedAt' = <<>>
    /\ UNCHANGED <<poaTable, csTable, today, pc, caller, req, idx, gridPoints,
                   filteredPoints, candidates, biasResults, landPriceResults,
                   results, events, exCache, lastCheck, ui, analyses,
                   cancelSignalled, firstResponse, runs, lastLookup, clock,
                   lastBatch, libVars>>

\* configurations and locations of direct calls of getLandPrice; the second
\* timeout is the one of the repository's test of the fallback
LookupConfigs ==
    {[apiEnabled |-> a, apiTimeout |-> t, cacheEnabled |-> c,
      cacheExpiry |-> cacheExpiry] : a \in BOOLEAN, t \in {apiTimeout, 1},
                                     c \in BOOLEAN}
LookupLocations ==
    {[lat |-> 13320, lng |-> -43068, e |-> 0],
     [lat |-> 13320, lng |-> -43068, e |-> 1],
     [lat |-> 13764, lng |-> -42624, e |-> 0]}

\* does a lookup of the location find a valid entry of the cache
CacheHit(location, config, cache, nowHours) ==
    /\ config.cacheEnabled
    /\ getCacheKey(location) \in DOMAIN cache
    /\ lpIsCacheValid(cache[getCacheKey(location)], config.cacheExpiry, nowHours)

\* a direct call of getLandPrice(location, config)
LookupPrice(location, config) ==
    /\ pc = "idle"
    /\ \E rand \in RandMilli :
         LET hit == CacheHit(location, config, lpCache, clock)
             got == getLandPrice(location, config, lpCache, clock, rand)
         IN  /\ hit => rand = 0
             /\ lpCache' = got.cache
             /\ storedAt' = IF hit \/ ~config.cacheEnabled THEN storedAt
                            ELSE CachePut(storedAt, getCacheKey(location), clock)
             /\ lastLookup' = [config |-> config, cached |-> hit,
                               result |-> got.result, at |-> clock,
                               storedAt |-> IF hit
                                            THEN storedAt[getCacheKey(location)]
                                            ELSE clock]
    /\ UNCHANGED <<poaTable, csTable, today, pc, caller, req, idx, gridPoints,
                   filteredPoints, candidates, biasResults, landPriceResults,
                   results, events, exCache, lastCheck, ui, analyses,
                   cancelSignalled, firstResponse, runs, clock, lastBatch,
                   libVars>>

\* batches and configurations of direct calls of getLandPrices
MaxBatch == 2
Batches ==
    UNION {[1..n -> LookupLocations] : n \in 0..MaxBatch}
BatchConfigs ==
    {[apiEnabled |-> a, apiTimeout |-> apiTimeout, cacheEnabled |-> TRUE,
      cacheExpiry |-> cacheExpiry] : a \in BOOLEAN}

\* a direct call of getLandPrices(locations, config)
LookupPrices(locations, config) ==
    /\ pc = "idle"
    /\ \E draws \in [1..Len(locations) -> RandMilli] :
         LET got == getLandPrices(locations, config, lpCache, clock, draws)
         IN  /\ lpCache' = got.cache
             /\ storedAt' = Stamp(storedAt, lpCache, got.cache, clock)
             /\ lastBatch' = [locations |-> locations, config |-> config,
                              results |-> got.results]
    /\ UNCHANGED <<poaTable, csTable, today, pc, caller, req, idx, gridPoints,
                   filteredPoints, candidates, biasResults, landPriceResults,
                   results, events, exCache, lastCheck, ui, analyses,
                   cancelSignalled, firstResponse, runs, lastLookup, clock, libVars>>

\* a day passes on the wall clock while nothing runs
MaxDays == 2
AdvanceClock ==
    /\ pc = "idle"
    /\ clock < MaxDays * cacheExpiry
    /\ clock' = clock + cacheExpiry
    /\ UNCHANGED <<poaTable, csTable, today, pc, caller, req, idx, gridPoints,
                   filteredPoints, candidates, biasResults, landPriceResults,
                   results, events, lpCache, exCache, lastCheck, ui, analyses,
                   cancelSignalled, firstResponse, runs, lastLookup, storedAt,
                   lastBatch, libVars>>

\* rings <<lng, lat>> of direct calls of pointInPolygon: a square, a square
\* hole inside it, a concave ring with slanted edges, a triangle apart
SquareRing == << <<0, 0>>, <<8, 0>>, <<8, 8>>, <<0, 8>>, <<0, 0>> >>
HoleRing == << <<2, 2>>, <<6, 2>>, <<6, 6>>, <<2, 6>>, <<2, 2>> >>
ConcaveRing == << <<0, 0>>, <<8, 0>>, <<8, 8>>, <<4, 3>>, <<0, 8>>, <<0, 0>> >>
TriangleRing == << <<10, 1>>, <<14, 1>>, <<12, 5>>, <<10, 1>> >>

TestGeometries ==
    { [type |-> "Polygon", coordinates |-> <<SquareRing>>],
      [type |-> "Polygon", coordinates |-> <<SquareRing, HoleRing>>],
      [type |-> "Polygon", coordinates |-> <<ConcaveRing>>],
      [type |-> "MultiPolygon",
       coordinates |-> << <<SquareRing, HoleRing>>, <<TriangleRing>> >>],
      [type |-> "MultiPolygon",
       coordinates |-> << <<ConcaveRing>>, <<TriangleRing>> >>],
      [type |-> "LineString", coordinates |-> <<>>] }

\* the tested points reach from outside the rings to outside on the other side
Margin == 1
MaxLng == 15
MaxLat == 9
MaxShift == 4

\* the closed ring begun at the vertex shift places on, and walked the other
\* way round when reversed
MoveRing(ring, shift, reversed) ==
    LET n == Len(ring) - 1
        turned == [i \in 1..(n + 1) |-> ring[((i - 1 + shift) % n) + 1]]
    IN  IF reversed THEN [i \in 1..(n + 1) |-> turned[n + 2 - i]] ELSE turned

MovePolygon(coordinates, shift, reversed) ==
    [h \in 1..Len(coordinates) |-> MoveRing(coordinates[h], shift, reversed)]

MoveGeometry(geometry, shift, reversed) ==
    IF geometry.type = "Polygon"
    THEN [geometry EXCEPT !.coordinates = MovePolygon(@, shift, reversed)]
    ELSE IF geometry.type = "MultiPolygon"
    THEN [geometry EXCEPT !.coordinates =
              [k \in 1..Len(@) |-> MovePolygon(@[k], shift, reversed)]]
    ELSE geometry

\* a direct call of pointInPolygon for a geometry, and for the same geometry
\* with every ring begun elsewhere and possibly walked the other way round
TestPoint(lat, lng, geometry, shift, reversed) ==
    /\ pc = "idle"
    /\ pipCall = NoPip
    /\ pipCall' = [lat |-> lat, lng |-> lng, geometry |-> geometry,
                   inside |-> pointInPolygon(lat, lng, geometry),
                   moved |-> MoveGeometry(geometry, shift, reversed),
                   insideMoved |->
                       pointInPolygon(lat, lng,
                                      MoveGeometry(geometry, shift, reversed))]
    /\ UNCHANGED <<analysisVars, clock, storedAt, lastBatch, topK, rankCall, biasCall,
                   sampleCall, irrCall, maskCall,
                   selCall>>

\* capacities, scores and number of pushes of the heaps tried
MaxK == 4
MaxScore == 3
MaxPushes == 6

\* new MinHeap(maxSize) or new MaxHeap(maxSize)
NewHeap(kind, maxSize) ==
    /\ pc = "idle"
    /\ topK = NoHeap
    /\ topK' = [kind |-> kind, maxSize |-> maxSize, heap |-> <<>>,
                before |-> <<>>, pushed |-> <<>>]
    /\ UNCHANGED <<analysisVars, clock, storedAt, lastBatch, pipCall, rankCall,
                   biasCall, sampleCall, irrCall, maskCall,
                   selCall>>

\* heap.push(item); the item carries the number of the push as its place
Push(score) ==
    /\ topK # NoHeap
    /\ Len(topK.pushed) < MaxPushes
    /\ LET n == Len(topK.pushed) + 1
           item == [score |-> score, kwhPerDay |-> score,
                    coordinates |-> [lat |-> n, lng |-> n]]
       IN  topK' = [topK EXCEPT !.heap = push(topK.kind, topK.heap,
                                              topK.maxSize, item),
                                !.before = topK.heap,
                                !.pushed = Append(topK.pushed, score)]
    /\ UNCHANGED <<analysisVars, clock, storedAt, lastBatch, pipCall, rankCall,
                   biasCall, sampleCall, irrCall, maskCall,
                   selCall>>

\* candidates of direct calls of rankTopLocations: two whose kWh/day differ
\* by less than the tolerance, two alike but for the place, two of one place,
\* a poor one, and three with a value that is not a valid number.  Values
\* within the tolerance of each other form classes, so the comparator orders
\* the candidates consistently and every stable sort gives one result.
Cand(kwh, score, lat, lng) ==
    [coordinates |-> [lat |-> lat, lng |-> lng], score |-> score,
     kwhPerDay |-> kwh]

CandidatePool ==
    { Cand(6, 5, 0, 0), Cand(5, 6, 4, 0), Cand(6, 5, 0, 1), Cand(5, 5, 0, 0),
      Cand(0, 0, 8, 8), Cand(6, NotANumber, 4, 4), Cand(-4, 5, 4, 4),
      Cand(PosInfinity, 5, 4, 4) }

MaxCandidates == 3

CandidateLists == UNION {[1..n -> CandidatePool] : n \in 0..MaxCandidates}

RankConfigs ==
    { <<>>,
      [maxResults |-> 2, minSpacingMeters |-> 500],
      [minScore |-> 3, minKwhPerDay |-> 3] }

RankCenters == {NoCenter, [given |-> TRUE, at |-> [lat |-> 1, lng |-> 0]]}

\* a direct call of rankTopLocations(candidates, config, center)
RankCall(cands, config, center) ==
    /\ pc = "idle"
    /\ rankCall = NoRank
    /\ rankCall' = [candidates |-> cands, config |-> config, center |-> center,
                    result |-> rankTopLocations(cands, config, center),
                    called |-> TRUE]
    /\ UNCHANGED <<analysisVars, clock, storedAt, lastBatch, pipCall, topK, biasCall,
                   sampleCall, irrCall, maskCall,
                   selCall>>

\* raw POA values, places and fits of direct calls of the bias corrector: a
\* negative value, zero, two values closer to each other than the fit moves
\* them, and a high one; two places of different location classes; fits with
\* a correlation on either side of 0.3
MaxBiasCandidates == 3
BiasPoaValues == {-20, 0, 60, 80, 150}
BiasLocations == {[lat |-> 0, lng |-> 0, e |-> 0], [lat |-> 1, lng |-> 0, e |-> 0]}
BiasCandidates ==
    UNION {[1..n -> [location : BiasLocations, rawPOA : BiasPoaValues]] :
               n \in 0..MaxBiasCandidates}
BiasFits ==
    [slope : {600, 1000}, intercept : {-70, 0, 10},
     correlation : {-500, 0, 299, 300, 1000}]
BiasPoaLists == {<<60>>, <<60, 80>>, <<150, 60, 80>>}

\* a direct call of processAllCandidates(candidates, dayOfYear, tilt, azimuth)
ProcessAll(cands) ==
    /\ pc = "idle"
    /\ biasCall = NoBias
    /\ \E rands \in [1..RefSamples -> RandMilli] :
         biasCall' = [kind |-> "all", candidates |-> cands,
                      allCandidates |-> [i \in 1..Len(cands) |-> cands[i].rawPOA],
                      results |-> processAllCandidates(csTable, cands, Days[today],
                                                       rands)]
    /\ UNCHANGED <<analysisVars, clock, storedAt, lastBatch, pipCall, topK, rankCall,
                   sampleCall, irrCall, maskCall,
                   selCall>>

\* a direct call of processCandidate(location, rawPOA, dayOfYear, tilt,
\* azimuth, allCandidates, biasFactors)
ProcessOne(location, rawPOA, allCandidates, biasFactors) ==
    /\ pc = "idle"
    /\ biasCall = NoBias
    /\ biasCall' = [kind |-> "one",
                    candidates |-> <<[location |-> location, rawPOA |-> rawPOA]>>,
                    allCandidates |-> allCandidates,
                    results |-> <<processCandidate(csTable, location, rawPOA,
                                                   Days[today], allCandidates,
                                                   biasFactors)>>]
    /\ UNCHANGED <<analysisVars, clock, storedAt, lastBatch, pipCall, topK, rankCall,
                   sampleCall, irrCall, maskCall,
                   selCall>>

\* radii (in hectometres) and draws of direct calls of the sampler: the
\* smallest and the largest draw, one in the middle and the two below the
\* largest
SampleRadii == {1, 3, 5, 10, 20}
SampleCenters == {Austin, [lat |-> 0, lng |-> 0]}
SampleDraws == {0, DrawSteps \div 2, DrawSteps - 3, DrawSteps - 2, DrawSteps - 1}

\* a direct call of generateRandomSampling(center, radiusKm); one of its
\* points is followed at full resolution, u and k being what rng() returned
\* for it
Sample(center, radiusHm, u, k) ==
    /\ pc = "idle"
    /\ sampleCall = NoSample
    /\ sampleCall' =
           [center |-> center, radiusHm |-> radiusHm,
            points |-> generateGridPoints(center, radiusHm),
            draw |-> [u |-> u, k |-> k],
            offset |-> randomOffset(radiusHm * 100, u, k),
            distance |-> distanceFromCenter(randomOffset(radiusHm * 100, u, k))]
    /\ UNCHANGED <<analysisVars, clock, storedAt, lastBatch, pipCall, topK, rankCall,
                   biasCall, irrCall, maskCall,
                   selCall>>

\* positions of the sun (below the horizon, low, high; south-east and south)
\* and panels (flat to upright; facing east, south, west)
SolarPositions == [elevation : {-30, 30, 60, 90}, azimuth : {120, 180}]
PanelParams == [tilt : {0, 30, 60, 90}, azimuth : {90, 180, 270}]

\* calculateIrradiance(solarPos, params) for one position of the sun and two
\* panels
Irradiance(solarPos, params, otherParams) ==
    /\ pc = "idle"
    /\ irrCall = NoIrradiance
    /\ irrCall' = [called |-> TRUE, solarPos |-> solarPos,
                   params |-> params, otherParams |-> otherParams,
                   irradiance |-> calculateIrradiance(solarPos, params),
                   otherIrradiance |-> calculateIrradiance(solarPos, otherParams)]
    /\ UNCHANGED <<analysisVars, clock, storedAt, lastBatch, pipCall, topK, rankCall,
                   biasCall, sampleCall, maskCall,
                   selCall>>

\* the options of direct calls of isPointExcluded, and the points tested: one
\* inside the residential block the provider can report and one outside
MaskOptions == [includeWater : BOOLEAN, includeSensitive : BOOLEAN]
MaskPoints ==
    {[lat |-> Austin.lat * 444 + 1, lng |-> Austin.lng * 444 - 1, e |-> 0],
     [lat |-> Austin.lat * 444 - 1, lng |-> Austin.lng * 444 + 2, e |-> 0]}

\* a direct call of ExclusionMask.isPointExcluded(lat, lng, center, radiusKm,
\* config) for the area of 0.3 km around Austin
CheckExcluded(point, options) ==
    /\ pc = "idle"
    /\ LET config == [enabled |-> TRUE, tagSetVersion |-> "1.0",
                      includeWater |-> options.includeWater,
                      includeSensitive |-> options.includeSensitive]
           key == generateCacheKey(Austin, 3, config)
           cached == key \in DOMAIN exCache /\ exIsCacheValid(exCache[key])
       IN  \E outcome \in FetchOutcomes, answer \in ProviderAnswers(Austin) :
             /\ outcome # "ok" \/ cached => answer = <<>>
             /\ cached => outcome = "ok"
             /\ LET r == isPointExcluded(point, Austin, 3, config, exCache,
                                         outcome, answer)
                IN  /\ exCache' = r.cache
                    /\ maskCall' =
                           [called |-> TRUE, point |-> point, options |-> options,
                            fetch |-> r.fetch, isExcluded |-> r.isExcluded,
                            usedFor |-> IF r.fetch = "none"
                                        THEN maskCall.fetchedFor[key]
                                        ELSE options,
                            fetchedFor |->
                                IF r.fetch = "ok"
                                THEN CachePut(maskCall.fetchedFor, key, options)
                                ELSE maskCall.fetchedFor]
    /\ UNCHANGED <<poaTable, csTable, today, pc, caller, req, idx, gridPoints,
                   filteredPoints, candidates, biasResults, landPriceResults,
                   results, events, lpCache, lastCheck, ui, analyses,
                   cancelSignalled, firstResponse, runs, lastLookup, clock,
                   storedAt, lastBatch, pipCall, topK, rankCall, biasCall,
                   sampleCall, irrCall, selCall>>

\* Lists of scored candidates longer than the 20 that are kept for the
\* spacing pass.  Candidate i (from 0) lies (i \div group) * step cells north
\* of the first; its score falls with i, rises with i, or goes up and down
\* with ties; its power per cost runs the other way; kwhPerDay is i + 1,
\* which tells the candidates apart.
MaxRanked == 22
RankedGroups == {1, 2, 20}
RankedSteps == {0, 1, 3}
RankedOrders == {"falling", "rising", "mixed"}

RankedScore(order, i, n) ==
    CASE order = "falling" -> n - i
      [] order = "rising" -> i
      [] order = "mixed" -> (7 * i) % 5

RankedCandidates(n, group, step, order) ==
    [k \in 1..n |->
        [location |-> [lat |-> ((k - 1) \div group) * step, lng |-> 0, e |-> 0],
         relativePotentialScore |-> RankedScore(order, k - 1, n),
         correctedPOA |-> k,
         kwhPerDay |-> k,
         landPrice |-> 100,
         powerPerCost |-> n - RankedScore(order, k - 1, n)]]

\* stages 5 and 6 of analyzeSolarPotential for the candidates with costs
Select(cands, rankByCostEfficiency, includeLandPrices) ==
    /\ pc = "idle"
    /\ selCall = NoSelection
    /\ selCall' =
           [called |-> TRUE, candidates |-> cands,
            byCost |-> rankByCostEfficiency /\ includeLandPrices,
            results |-> finalResults(applySpacingToBiasResults(
                           sortedResults(cands, rankByCostEfficiency,
                                         includeLandPrices)))]
    /\ UNCHANGED <<analysisVars, clock, storedAt, lastBatch, pipCall, topK, rankCall,
                   biasCall, sampleCall, irrCall, maskCall>>

Next ==
    \/ \E inputs \in MapInputs : handleAnalyze(inputs)
    \/ \E r \in DirectRequests : AnalyzeDirect(r)
    \/ ExcludePoint
    \/ ComputePoint
    \/ BiasCorrection
    \/ LandPrices
    \/ Ranking
    \/ handleAnalyzeResolved
    \/ DirectResolved
    \/ SignalCancel

Spec == Init /\ [][Next]_vars

\* Two analyses of the same inputs from the map view, one irradiance and
\* clear-sky table, the date and the land price cache free to change between
InitRepeat ==
    /\ poaTable = [z \in 0..(NumZones - 1) |-> IF z = 0 THEN 60 ELSE 150]
    /\ csTable = [z \in 0..(NumZones - 1) |-> IF z = 0 THEN 100 ELSE 40]
    /\ today = 1
    /\ InitEngine

NextRepeat ==
    \/ \E inputs \in MapInputs : handleAnalyze(inputs)
    \/ ExcludePoint
    \/ ComputePoint
    \/ BiasCorrection
    \/ LandPrices
    \/ Ranking
    \/ handleAnalyzeResolved
    \/ SignalCancel
    \/ AnalyzeAgain
    \/ Tick
    \/ ClearCache

SpecRepeat == InitRepeat /\ [][NextRepeat]_vars

\* Direct calls of getLandPrice, in any order and with any configuration
NextLookup ==
    \/ \E location \in LookupLocations, config \in LookupConfigs :
           LookupPrice(location, config)
    \/ ClearCache

SpecLookup == InitRepeat /\ [][NextLookup]_vars

\* Direct calls of getLandPrices, in any order
NextBatch ==
    \/ \E locations \in Batches, config \in BatchConfigs :
           LookupPrices(locations, config)
    \/ ClearCache

SpecBatch == InitRepeat /\ [][NextBatch]_vars

\* Direct calls of getLandPrice with the default configuration while days pass
NextExpiry ==
    \/ \E location \in LookupLocations :
           LookupPrice(location, DefaultLandPriceConfig)
    \/ AdvanceClock

SpecExpiry == InitRepeat /\ [][NextExpiry]_vars

\* One direct call of pointInPolygon
NextPolygon ==
    \E lat \in (-Margin)..MaxLat, lng \in (-Margin)..MaxLng,
       geometry \in TestGeometries, shift \in 0..MaxShift, reversed \in BOOLEAN :
        TestPoint(lat, lng, geometry, shift, reversed)

SpecPolygon == InitRepeat /\ [][NextPolygon]_vars

\* A heap is made and items are pushed
NextHeap ==
    \/ \E kind \in {"MinHeap", "MaxHeap"}, maxSize \in 1..MaxK :
           NewHeap(kind, maxSize)
    \/ \E score \in 0..MaxScore : Push(score)

SpecHeap == InitRepeat /\ [][NextHeap]_vars

\* One direct call of rankTopLocations
NextRank ==
    \E cands \in CandidateLists, config \in RankConfigs, center \in RankCenters :
        RankCall(cands, config, center)

SpecRank == InitRepeat /\ [][NextRank]_vars

\* One direct call of the bias corrector, for any clear-sky table and date
InitBias ==
    /\ poaTable = [z \in 0..(NumZones - 1) |-> IF z = 0 THEN 60 ELSE 150]
    /\ csTable \in [0..(NumZones - 1) -> CsValues]
    /\ today \in 1..Len(Days)
    /\ InitEngine

NextBias ==
    \/ \E cands \in BiasCandidates : ProcessAll(cands)
    \/ \E location \in BiasLocations, rawPOA \in BiasPoaValues,
          allCandidates \in BiasPoaLists, biasFactors \in BiasFits :
           ProcessOne(location, rawPOA, allCandidates, biasFactors)

SpecBias == InitBias /\ [][NextBias]_vars

\* One direct call of the sampler
NextSample ==
    \E center \in SampleCenters, radiusHm \in SampleRadii, u \in SampleDraws,
       k \in 1..8 :
        Sample(center, radiusHm, u, k)

SpecSample == InitRepeat /\ [][NextSample]_vars

\* One position of the sun, two panels
NextIrradiance ==
    \E solarPos \in SolarPositions, params \in PanelParams,
       otherParams \in PanelParams :
        Irradiance(solarPos, params, otherParams)

SpecIrradiance == InitRepeat /\ [][NextIrradiance]_vars

\* Direct calls of isPointExcluded for one area, with any options
NextMask ==
    \E point \in MaskPoints, options \in MaskOptions : CheckExcluded(point, options)

SpecMask == InitRepeat /\ [][NextMask]_vars

\* One list of candidates is ordered, cut and thinned out
NextSelect ==
    \E n \in 0..MaxRanked, group \in RankedGroups, step \in RankedSteps,
       order \in RankedOrders, rankByCostEfficiency \in BOOLEAN,
       includeLandPrices \in BOOLEAN :
        Select(RankedCandidates(n, group, step, order), rankByCostEfficiency,
               includeLandPrices)

SpecSelect == InitRepeat /\ [][NextSelect]_vars

----------------------------------------------------------------------------
(* Properties *)

Returned == pc \in {"returned", "done"}

\* squared distance of two points in cells of 250 m
SquaredCells(a, b) ==
    (a.lat - b.lat) * (a.lat - b.lat) + (a.lng - b.lng) * (a.lng - b.lng)

\* C1: any two locations of a returned result list are at least 500 m (two
\* cells) apart
C1_MinSpacing ==
    Returned =>
        \A i, j \in 1..Len(results) :
            i # j => SquaredCells(results[i].coordinates, results[j].coordinates) >= 4

\* a list of two or more was returned and a candidate closer than 500 m to a
\* returned location was left out
C1_Witness ==
    /\ Returned
    /\ Len(results) >= 2
    /\ \E c \in Range(candidates) :
         /\ \A k \in 1..Len(results) : results[k].coordinates # c.location
         /\ \E k \in 1..Len(results) :
                SquaredCells(results[k].coordinates, c.location) < 4

\* C2: a second analysis of the same request (no polygon provider, synthetic
\* land prices) returns the result list the first one returned, whatever was
\* drawn at random, whatever the date, and whether or not the land price
\* cache was cleared in between
C2_SameResponse ==
    (/\ pc = "done"
     /\ runs >= 2
     /\ ~req.exclusion.enabled
     /\ firstResponse.req = req) => results = firstResponse.results

\* the metric a run is ordered by according to its flags
EffectiveMetric(r) ==
    IF req.rankByCost /\ req.includeLandPrices THEN r.powerPerCost ELSE r.score

C4_AtMostFiveRanked ==
    /\ Returned =>
         /\ Len(results) <= 5
         /\ Len(candidates) >= 1 => Len(results) >= 1
    /\ (pc = "done" /\ caller = "mapview") =>
         /\ Len(ui.currentResults) = Len(results)
         /\ \A i \in 1..Len(results) :
              /\ ui.currentResults[i].rank = i
              /\ ui.currentResults[i].coordinates = results[i].coordinates
              /\ analyses[Len(analyses)].results[i].rank = i

\* five results were returned and a sixth candidate, 500 m or more from each
\* of them, was left out
C4_Witness ==
    /\ Returned
    /\ Len(results) = 5
    /\ \E c \in Range(candidates) :
         \A k \in 1..Len(results) :
             SquaredCells(results[k].coordinates, c.location) >= 4

\* C5: a request with a radius outside (0, 100] km or a coordinate out of
\* range is rejected before a point is sampled or an event is emitted
C5_InvalidRejected ==
    (req # NoReq /\ ~ValidRequest(req)) =>
        /\ events = <<>>
        /\ gridPoints = <<>>
        /\ results = <<>>

\* C6: once cancellation was signalled after stage 1, the run returns no
\* result list, emits no 'complete' event and stores nothing
C6_CancelHonoured ==
    cancelSignalled =>
        /\ results = <<>>
        /\ \A i \in 1..Len(events) : events[i].stage # "complete"
        /\ Len(analyses) < runs

StageIndex(stage) ==
    CASE stage = "grid-generation" -> 1
      [] stage = "irradiance-computation" -> 2
      [] stage = "bias-correction" -> 3
      [] stage = "land-prices" -> 4
      [] stage = "ranking" -> 5
      [] stage = "complete" -> 6
      [] OTHER -> 0

\* C7: the events of a run come in stage order, 'land-prices' only when land
\* prices are included, no stage after a later one, every percentage within
\* [0, 100] and none smaller than the one before; a finished run reported
\* every stage it has
C7_ProgressOrdered ==
    /\ \A i \in 1..Len(events) :
         /\ events[i].pct >= 0 /\ events[i].pct <= 100
         /\ StageIndex(events[i].stage) >= 1
         /\ events[i].stage = "land-prices" => req.includeLandPrices
    /\ \A i \in 1..(Len(events) - 1) :
         /\ StageIndex(events[i].stage) <= StageIndex(events[i + 1].stage)
         /\ events[i].pct <= events[i + 1].pct
    /\ Returned =>
         {StageIndex(events[i].stage) : i \in 1..Len(events)} =
             (1..6) \ (IF req.includeLandPrices THEN {} ELSE {4})

\* a finished run with land prices and three points
C7_Witness ==
    /\ Returned
    /\ req.includeLandPrices
    /\ Len(candidates) >= 3

C9_FailOpen ==
    lastCheck.fetch \in {"reject", "http_error"} =>
        /\ ~lastCheck.isExcluded
        /\ ~lastCheck.threw
        /\ lastCheck.point \in Range(filteredPoints)

\* the provider failed for a point inside the block it would have reported
C9_Witness ==
    /\ lastCheck.fetch \in {"reject", "http_error"}
    /\ \E a \in ProviderAnswers(req.center) :
         \E k \in 1..Len(a) :
             pointInPolygon(2 * lastCheck.point.lat, 2 * lastCheck.point.lng,
                            a[k].geometry)

\* C10: with the external source enabled, a lookup that takes longer than
\* the configured timeout resolves with dataSource 'synthetic' and a
\* confidence of at most 0.3
C10_FallbackOnTimeout ==
    (/\ lastLookup.result.dataSource # "none"
     /\ lastLookup.config.apiEnabled
     /\ ~lastLookup.cached
     /\ ApiLatencyMs > lastLookup.config.apiTimeout) =>
        /\ lastLookup.result.dataSource = "synthetic"
        /\ lastLookup.result.confidence <= 300

\* C11: getLandPrices returns one result per input location, in input order,
\* and the location of the i-th result is the i-th input location, also when
\* two input coordinates share a cache key
C11_BatchInInputOrder ==
    lastBatch # NoBatch =>
        /\ Len(lastBatch.results) = Len(lastBatch.locations)
        /\ \A i \in 1..Len(lastBatch.locations) :
               lastBatch.results[i].location = lastBatch.locations[i]

\* a lookup that computed a synthetic price (no entry of the cache returned)
FreshSynthetic(lookup) ==
    /\ lookup.result.dataSource = "synthetic"
    /\ ~lookup.cached

\* C12: the synthetic price of a coordinate depends on the coordinate and the
\* model configuration only: two lookups of the same coordinate that both
\* compute the price (the cache cleared or disabled in between) give the same
\* price
C12_PriceOfCoordinate ==
    [][(/\ FreshSynthetic(lastLookup)
        /\ FreshSynthetic(lastLookup')
        /\ lastLookup'.result.location = lastLookup.result.location)
       => lastLookup'.result.pricePerSquareMeter
              = lastLookup.result.pricePerSquareMeter]_vars

\* C13: a lookup returns the entry of the cache only while the entry is
\* younger than cacheExpiry hours; after that the price is computed again
C13_CachedOnlyWhileYoung ==
    lastLookup.cached =>
        lastLookup.at - lastLookup.storedAt < lastLookup.config.cacheExpiry

\* C14: when the request has includeLandPrices = false, no result of the
\* analysis carries a landPrice or a powerPerCost field
C14_NoCostFields ==
    (Returned /\ ~req.includeLandPrices) =>
        \A i \in 1..Len(results) :
            {"landPrice", "powerPerCost"} \cap DOMAIN results[i] = {}

\* the exclusion filter of the running analysis removed every sampled point
AllExcluded ==
    /\ req.exclusion.enabled
    /\ pc \notin {"idle", "exclusion"}
    /\ gridPoints = <<>>

\* C15: when the exclusion filter removes every sampled point, every later
\* stage can run on the empty list, and the analysis returns an empty result
\* list after 'complete' at 100 as its last event
C15_AllExcludedTolerated ==
    AllExcluded =>
        /\ ~Returned => ENABLED (BiasCorrection \/ LandPrices \/ Ranking)
        /\ Returned =>
               /\ results = <<>>
               /\ events[Len(events)] = Ev(100, "complete")

C15_Witness ==
    /\ AllExcluded
    /\ Returned
    /\ lastCheck.isExcluded
    /\ results = <<>>

\* the point lies on the edge between two successive vertices of the ring
OnRingEdge(lat, lng, ring) ==
    \E i \in 1..(Len(ring) - 1) :
        LET xa == ring[i][1]
            ya == ring[i][2]
            xb == ring[i + 1][1]
            yb == ring[i + 1][2]
        IN  /\ (lng - xa) * (yb - ya) = (xb - xa) * (lat - ya)
            /\ Min(xa, xb) <= lng /\ lng <= Max(xa, xb)
            /\ Min(ya, yb) <= lat /\ lat <= Max(ya, yb)

\* the rings of a geometry
RingsOf(geometry) ==
    IF geometry.type = "Polygon" THEN Range(geometry.coordinates)
    ELSE IF geometry.type = "MultiPolygon"
    THEN UNION {Range(geometry.coordinates[k]) : k \in 1..Len(geometry.coordinates)}
    ELSE {}

OnNoEdge(call) ==
    \A ring \in RingsOf(call.geometry) : ~OnRingEdge(call.lat, call.lng, ring)

\* inside the exterior ring and inside no hole
InsideOuterNotHoles(lat, lng, coordinates) ==
    /\ pointInRing(lat, lng, coordinates[1])
    /\ ~\E h \in 2..Len(coordinates) : pointInRing(lat, lng, coordinates[h])

\* C16: a point is inside a Polygon exactly when it is inside the exterior
\* ring and inside no hole, inside a MultiPolygon exactly when it is inside
\* one of its polygons, and for a point on no edge the answer is the same
\* whichever vertex each ring starts at and whichever way round it runs
C16_PointInPolygon ==
    pipCall # NoPip =>
        /\ pipCall.geometry.type = "Polygon" =>
               pipCall.inside = InsideOuterNotHoles(pipCall.lat, pipCall.lng,
                                                    pipCall.geometry.coordinates)
        /\ pipCall.geometry.type = "MultiPolygon" =>
               pipCall.inside =
                   \E k \in 1..Len(pipCall.geometry.coordinates) :
                       InsideOuterNotHoles(pipCall.lat, pipCall.lng,
                                           pipCall.geometry.coordinates[k])
        /\ OnNoEdge(pipCall) => pipCall.insideMoved = pipCall.inside

\* a point in a hole of a polygon of a MultiPolygon whose rings were turned
\* and reversed, and a point inside the moved concave ring
C16_Witness ==
    /\ pipCall.geometry.type = "MultiPolygon"
    /\ Len(pipCall.geometry.coordinates[1]) = 2
    /\ pointInRing(pipCall.lat, pipCall.lng, pipCall.geometry.coordinates[1][2])
    /\ OnNoEdge(pipCall)
    /\ pipCall.moved # pipCall.geometry
    /\ pipCall.moved.coordinates[1][1][2] # pipCall.geometry.coordinates[1][1][2]
    /\ ~pipCall.inside
    /\ ~pipCall.insideMoved

\* the scores of a sequence of numbers or of items, largest first
Descending(scores) == SortBy(scores, LAMBDA a, b : a > b)
ScoresOf(heap) == [i \in 1..Len(heap) |-> heap[i].score]

C18_WellFormed ==
    rankCall.called =>
        LET config == finalConfig(rankCall.config)
            result == rankCall.result
        IN  /\ \A i \in 1..Len(result) :
                   /\ isValidNumber(result[i].score)
                   /\ isValidNumber(result[i].kwhPerDay)
                   /\ result[i].score >= 0 /\ result[i].kwhPerDay >= 0
                   /\ result[i].score >= config.minScore
                   /\ result[i].kwhPerDay >= config.minKwhPerDay
            /\ Len(result) <= config.maxResults
            /\ \A i, j \in 1..Len(result) :
                   i # j => engineDistance(result[i].coordinates,
                                           result[j].coordinates)
                               >= config.minSpacingMeters
            /\ rankCall.candidates = <<>> => result = <<>>

\* invalid candidates were given, one candidate was left out for its place
\* and one for the limit, and two are returned
C18_Witness ==
    /\ rankCall.called
    /\ Len(rankCall.candidates) = MaxCandidates
    /\ \E i \in 1..MaxCandidates : ~isValidNumber(rankCall.candidates[i].score)
    /\ Len(rankCall.result) = 2
    /\ rankCall.result[1].kwhPerDay > rankCall.result[2].kwhPerDay + epsilon

\* a goes before b by the order claimed: higher kWh/day, then higher score,
\* then nearer to the center when one is given, then lower latitude, then
\* lower longitude
GoesBefore(a, b, center) ==
    LET distA == engineDistance(center.at, a.coordinates)
        distB == engineDistance(center.at, b.coordinates)
    IN  \/ a.kwhPerDay > b.kwhPerDay
        \/ /\ a.kwhPerDay = b.kwhPerDay
           /\ \/ a.score > b.score
              \/ /\ a.score = b.score
                 /\ \/ center.given /\ distA < distB
                    \/ /\ center.given => distA = distB
                       /\ \/ a.coordinates.lat < b.coordinates.lat
                          \/ /\ a.coordinates.lat = b.coordinates.lat
                             /\ a.coordinates.lng <= b.coordinates.lng

\* C19: rankTopLocations returns the candidates in descending kWh/day, those
\* of equal kWh/day by higher score, then by shorter distance to the center
\* when one is given, then by lower latitude, then by lower longitude
C19_OrderedByMerit ==
    rankCall.called =>
        \A i, j \in 1..Len(rankCall.result) :
            i < j => GoesBefore(rankCall.result[i], rankCall.result[j],
                                rankCall.center)

\* the orders in which the candidates of a list can be given
PermutationsOf(cands) ==
    LET n == Len(cands)
    IN  {[i \in 1..n |-> cands[f[i]]] :
            f \in {g \in [1..n -> 1..n] : \A i, j \in 1..n : i # j => g[i] # g[j]}}

\* C20: rankTopLocations gives the same list in the same order for every
\* order in which the same candidates are given
C20_OrderOfInputIrrelevant ==
    rankCall.called =>
        \A other \in PermutationsOf(rankCall.candidates) :
            rankTopLocations(other, rankCall.config, rankCall.center)
                = rankCall.result

\* the arguments after urbanPenalty are left at their defaults: land prices
\* included, ranking by cost efficiency, no exclusion configuration
DefaultArguments(r) ==
    r.includeLandPrices /\ r.rankByCost /\ ~r.exclusion.enabled

\* C21: the results of analyzeSolarPotential(center, radius, urbanPenalty),
\* every other argument at its default, are in non-increasing order of score
\* and in non-increasing order of kwhPerDay
C21_OrderedByScoreAndKwh ==
    (Returned /\ DefaultArguments(req)) =>
        \A i \in 1..(Len(results) - 1) :
            /\ results[i].score >= results[i + 1].score
            /\ results[i].kwhPerDay >= results[i + 1].kwhPerDay

\* C22: the local percentile of every candidate the bias corrector processed
\* is 100 * rank / (n - 1), rank being a position (from 0) of the candidate's
\* corrected POA among the corrected POA values of all n candidates sorted
\* ascending; so the lowest gets 0 and the highest 100
C22_PercentileOfCorrected ==
    (biasCall.kind = "all" /\ Len(biasCall.results) >= 2) =>
        LET n == Len(biasCall.results)
            sortedCorrected ==
                SortBy([i \in 1..n |-> biasCall.results[i].correctedPOA],
                       LAMBDA a, b : a < b)
        IN  \A i \in 1..n :
                \E rank \in 0..(n - 1) :
                    /\ sortedCorrected[rank + 1] = biasCall.results[i].correctedPOA
                    /\ biasCall.results[i].localPercentile =
                           Div(rank * 100 * 1000, n - 1)

\* C23: when the fitted correlation satisfies |corr| < 0.3 the fit degrades
\* to the identity - the reported slope is 1, the intercept 0 and the
\* corrected POA is the raw POA; otherwise the corrected POA is
\* max(0, slope * raw POA + intercept) with the fitted slope and intercept
C23_WeakFitIsIdentity ==
    \A i \in 1..Len(biasCall.results) :
        LET r == biasCall.results[i]
            fit == r.biasFactors
        IN  IF Abs(fit.correlation) < 300
            THEN /\ r.correctedPOA = r.rawPOA
                 /\ biasCall.kind = "all" => fit.slope = 1000 /\ fit.intercept = 0
            ELSE r.correctedPOA =
                     Max(0, Div(fit.slope * r.rawPOA, 1000) + fit.intercept)

C25_CountAndWithinRadius ==
    sampleCall # NoSample =>
        /\ Len(sampleCall.points) =
               Min(MaxPoints,
                   Max(MinPoints,
                       RoundDiv(sampleCall.radiusHm * sampleCall.radiusHm * 30, 100)))
        /\ sampleCall.distance <= sampleCall.radiusHm * 100 * 1000

\* C26: for a fixed position of the sun, the DNI (and so the DHI and the GHI)
\* that calculateIrradiance returns is the same for every tilt and azimuth
\* of the panel
C26_DniIndependentOfPanel ==
    irrCall.called => irrCall.irradiance = irrCall.otherIrradiance

\* C27: the lookups of one batch of getLandPrices with the external source
\* enabled that share a cache key all return the same price, and the cache
\* holds that price afterwards
C27_SameKeySamePrice ==
    (lastBatch # NoBatch /\ lastBatch.config.apiEnabled) =>
        \A i, j \in 1..Len(lastBatch.locations) :
            LET key == getCacheKey(lastBatch.locations[i])
            IN  getCacheKey(lastBatch.locations[j]) = key =>
                    /\ lastBatch.results[i].pricePerSquareMeter =
                           lastBatch.results[j].pricePerSquareMeter
                    /\ key \in DOMAIN lpCache =>
                           lpCache[key].pricePerSquareMeter =
                               lastBatch.results[i].pricePerSquareMeter

\* C28: during one analysis with exclusion enabled the polygon provider is
\* queried at most once: once it has answered for a point, or the polygons
\* came from the cache, every later point of the analysis is tested against
\* the cached polygon set and no request is made for it, also when the
\* provider's answer was an empty list
C28_ProviderQueriedOnce ==
    [][(/\ pc = "exclusion"
        /\ idx >= 2
        /\ lastCheck.fetch \in {"ok", "none"}) => lastCheck'.fetch = "none"]_vars

\* C29: a polygon set cached for one combination of includeWater and
\* includeSensitive is never used for a later request of the same center and
\* radius with another combination: the polygons a point is tested against
\* were requested from the provider with the options of the request itself
C29_CacheKeepsOptionsApart ==
    maskCall.called => maskCall.usedFor = maskCall.options

\* the active metric of a candidate of the last selection
ActiveMetric(c) ==
    IF selCall.byCost THEN c.powerPerCost ELSE c.relativePotentialScore

\* the place (from 1) of candidate i in the order by the active metric, the
\* earlier candidate first among equals
PlaceByMetric(i) ==
    1 + Cardinality({j \in 1..Len(selCall.candidates) :
            \/ ActiveMetric(selCall.candidates[j])
                   > ActiveMetric(selCall.candidates[i])
            \/ /\ ActiveMetric(selCall.candidates[j])
                      = ActiveMetric(selCall.candidates[i])
               /\ j < i})

\* the candidates returned, by their number in the input
Selected == {selCall.results[k].kwhPerDay : k \in 1..Len(selCall.results)}

\* the candidates selected before candidate i in the order by the metric
SelectedBefore(i) == {j \in Selected : PlaceByMetric(j) < PlaceByMetric(i)}

\* C30: the result is the greedy selection over the 20 best candidates by
\* the active metric.  The results come in the order of the metric; the best
\* candidate is the first result; a candidate among the 20 best is left out
\* only if it lies within 500 m of a candidate selected before it or 5 had
\* been chosen already, and is selected otherwise; no candidate outside the
\* 20 best is returned
C30_GreedyOverTopTwenty ==
    selCall.called =>
        LET cands == selCall.candidates
            res == selCall.results
        IN  /\ Cardinality(Selected) = Len(res)
            /\ \A k \in 1..Len(res) :
                   /\ res[k].kwhPerDay \in 1..Len(cands)
                   /\ res[k].coordinates = cands[res[k].kwhPerDay].location
                   /\ res[k].score = cands[res[k].kwhPerDay].relativePotentialScore
                   /\ PlaceByMetric(res[k].kwhPerDay) <= TopCandidates
            /\ \A k \in 1..(Len(res) - 1) :
                   PlaceByMetric(res[k].kwhPerDay) < PlaceByMetric(res[k + 1].kwhPerDay)
            /\ Len(cands) >= 1 =>
                   Len(res) >= 1 /\ PlaceByMetric(res[1].kwhPerDay) = 1
            /\ \A i \in 1..Len(cands) :
                   (PlaceByMetric(i) <= TopCandidates /\ i \notin Selected) =>
                       \/ \E j \in SelectedBefore(i) :
                              calculateDistance(cands[i].location,
                                                cands[j].location) < minSpacingM
                       \/ Cardinality(SelectedBefore(i)) >= MaxResults

\* more than 20 candidates; the 20 best lie within 500 m of each other and
\* one is returned, while a candidate beyond the 20 best lies 750 m away
C30_Witness ==
    /\ selCall.called
    /\ Len(selCall.candidates) > TopCandidates
    /\ Len(selCall.results) = 1
    /\ \E i \in 1..Len(selCall.candidates) :
         /\ PlaceByMetric(i) > TopCandidates
         /\ \A k \in 1..Len(selCall.results) :
                calculateDistance(selCall.candidates[i].location,
                                  selCall.results[k].coordinates) >= minSpacingM

====
